---- MODULE Spec2Model ----
(***************************************************************************)
(* Verification model of the stranger-beers ingestion API: the signup      *)
(* reconciler (services/signup.py), the payment matcher                    *)
(* (services/payment.py), the webhook handlers (main.py) and the           *)
(* per-request unit of work (db.py get_session).                           *)
(*                                                                         *)
(* A request is handled in two steps.  The handler step runs the whole     *)
(* service function against the session: it reads the committed tables,    *)
(* mutates the session's objects and queues the new audit rows.  The       *)
(* second step is the end of get_session: commit or rollback.  While a     *)
(* request is in phase "handled" the variables registrations, signups and  *)
(* payments still hold the tables as they were before the request and      *)
(* session holds what the request is about to write.                       *)
(***************************************************************************)
EXTENDS Integers, Sequences, FiniteSets, TLC

VARIABLES
    registrations,  \* committed "registrations" table: registration_id -> row
    signups,        \* committed "signups" audit table, in insertion order
    payments,       \* committed "payments" audit table, in insertion order
    session,        \* the request's unit of work (rows as the session sees them)
    phase,          \* "idle" | "handled" (handler returned, commit/rollback pending)
    form_type,      \* form kind of the last request: "none" | "signup" | "payment"
    parsed,         \* ParsedSignupData / ParsedPaymentData of the last request
    result,         \* SignupResult / PaymentResult of the last request
    response,       \* WebhookResponse or HTTPException of the last request
    now,            \* clock: datetime.now() of the last request
    uuid_count,     \* number of uuid4() values drawn so far
    committed,      \* TRUE iff the last finished request was committed
    prev,           \* history: how the current request relates to the one before
    settings,       \* config.py Settings of the process, fixed at start
    call,           \* a function called on its own: its name and arguments
    returned,       \* what that call returned or raised
    sessions        \* the units of work of requests served at the same time

vars == <<registrations, signups, payments, session, phase, form_type, parsed,
          result, response, now, uuid_count, committed, prev, settings, call, returned,
          sessions>>

----------------------------------------------------------------------------
(* Bounds and input domains *)

MaxRequests == 3

\* requests handled in a run of concurrent sessions
MaxConcRequests == 3

None == "None"
NoTime == 0

RegistrationIds == {"R1"}
EventIds == {"E1"}

\* What a signup form carries besides the hidden registration_id / event_id
\* fields: the phone question (read both by SIGNUP_FIELD_MAP and by
\* FORM_FIELD_MAP), the email and the name.
SignupAnswers ==
    { [phone |-> None, email |-> None, full_name |-> None],
      [phone |-> "06 12345678", email |-> "ann@x.org", full_name |-> "Ann"],
      [phone |-> "+31612345678", email |-> "bob@x.org", full_name |-> None] }

\* What a payment form carries besides the hidden fields: the phone question
\* and the "All done?" question.
PaymentAnswers ==
    { [phone |-> None, all_done |-> None],
      [phone |-> "06 12345678", all_done |-> "Yes"],
      [phone |-> "invalid", all_done |-> None] }

Opt(S) == S \cup {None}

----------------------------------------------------------------------------
(* Strings *)

\* the characters of the strings of the model
chars(string) ==
    CASE string = "" -> <<>>
      [] string = "   " -> <<" ", " ", " ">>
      [] string = "invalid" -> <<"i", "n", "v", "a", "l", "i", "d">>
      [] string = "1" -> <<"1">>
      [] string = "12" -> <<"1", "2">>
      [] string = "123" -> <<"1", "2", "3">>
      [] string = "+" -> <<"+">>
      [] string = "(415) 555-1234" -> <<"(", "4", "1", "5", ")", " ", "5", "5", "5", "-", "1", "2", "3", "4">>
      [] string = "4155551234" -> <<"4", "1", "5", "5", "5", "5", "1", "2", "3", "4">>
      [] string = "+14155551234" -> <<"+", "1", "4", "1", "5", "5", "5", "5", "1", "2", "3", "4">>
      [] string = " +1 415 555 1234 " -> <<" ", "+", "1", " ", "4", "1", "5", " ", "5", "5", "5", " ", "1", "2", "3", "4", " ">>
      [] string = "14155551234" -> <<"1", "4", "1", "5", "5", "5", "5", "1", "2", "3", "4">>
      [] string = "06 12345678" -> <<"0", "6", " ", "1", "2", "3", "4", "5", "6", "7", "8">>
      [] string = "+31612345678" -> <<"+", "3", "1", "6", "1", "2", "3", "4", "5", "6", "7", "8">>
      [] string = "+31 6 12345678" -> <<"+", "3", "1", " ", "6", " ", "1", "2", "3", "4", "5", "6", "7", "8">>
      [] string = "31612345678" -> <<"3", "1", "6", "1", "2", "3", "4", "5", "6", "7", "8">>
      [] string = "+31 06 12345678" -> <<"+", "3", "1", " ", "0", "6", " ", "1", "2", "3", "4", "5", "6", "7", "8">>
      [] string = "+31 6 1234" -> <<"+", "3", "1", " ", "6", " ", "1", "2", "3", "4">>
      [] string = "+44 20 7946 0958" -> <<"+", "4", "4", " ", "2", "0", " ", "7", "9", "4", "6", " ", "0", "9", "5", "8">>
      [] string = "+442079460958" -> <<"+", "4", "4", "2", "0", "7", "9", "4", "6", "0", "9", "5", "8">>
      [] string = "020 7946 0958" -> <<"0", "2", "0", " ", "7", "9", "4", "6", " ", "0", "9", "5", "8">>
      [] string = "+999 123456" -> <<"+", "9", "9", "9", " ", "1", "2", "3", "4", "5", "6">>
      [] string = "0612345678" -> <<"0", "6", "1", "2", "3", "4", "5", "6", "7", "8">>
      [] string = "02079460958" -> <<"0", "2", "0", "7", "9", "4", "6", "0", "9", "5", "8">>
      [] string = "+3161234567890123456789" -> <<"+", "3", "1", "6", "1", "2", "3", "4", "5", "6", "7", "8", "9", "0", "1", "2", "3", "4", "5", "6", "7", "8", "9">>
      [] string = "  " -> <<" ", " ">>
      [] string = " a " -> <<" ", "a", " ">>
      [] string = "b" -> <<"b">>
      [] string = " c " -> <<" ", "c", " ">>
      [] string = "d" -> <<"d">>
      [] string = "a" -> <<"a">>
      [] string = "c" -> <<"c">>
      [] string = "4" -> <<"4">>

\* "".join(characters)
RECURSIVE string_of(_)
string_of(characters) ==
    IF Len(characters) = 0 THEN "" ELSE characters[1] \o string_of(Tail(characters))

Range(characters) == {characters[i] : i \in 1..Len(characters)}

\* the positions of the characters of a sequence that are in a set
Positions(characters, S) == {i \in 1..Len(characters) : characters[i] \in S}
Min(S) == CHOOSE i \in S : \A j \in S : i <= j
Max(S) == CHOOSE i \in S : \A j \in S : i >= j

\* str.strip, on characters and on strings
strip_chars(characters) ==
    LET inked == Positions(characters, {c \in Range(characters) : c # " "})
    IN  IF inked = {} THEN <<>> ELSE SubSeq(characters, Min(inked), Max(inked))

strip(string) == string_of(strip_chars(chars(string)))

(* The phonenumbers library, for three regions *)

DIGITS == {"0", "1", "2", "3", "4", "5", "6", "7", "8", "9"}
LETTERS == {"a", "d", "i", "l", "n", "v"}
PUNCTUATION == {" ", "(", ")", "-", "."}
PLUS_SIGN == "+"

MIN_LENGTH_FOR_NSN == 2
MAX_LENGTH_FOR_NSN == 17
MAX_INPUT_STRING_LENGTH == 250

SUPPORTED_REGIONS == {"US", "NL", "GB"}

\* the metadata of a region: calling code, national prefix, the lengths and
\* leading digits of its national numbers
Metadata(region) ==
    CASE region = "US" -> [country_code |-> <<"1">>, national_prefix |-> <<"1">>,
                           lengths |-> {10}, leading |-> DIGITS \ {"0", "1"}]
      [] region = "NL" -> [country_code |-> <<"3", "1">>, national_prefix |-> <<"0">>,
                           lengths |-> {9}, leading |-> DIGITS \ {"0"}]
      [] region = "GB" -> [country_code |-> <<"4", "4">>, national_prefix |-> <<"0">>,
                           lengths |-> {7, 9, 10}, leading |-> DIGITS \ {"0", "4", "6"}]

region_code_for_country_code(country_code) ==
    CHOOSE region \in SUPPORTED_REGIONS : Metadata(region).country_code = country_code

NumberParseException(error_type) ==
    [raises |-> "NumberParseException", error_type |-> error_type]

PhoneNumber(country_code, national_number) ==
    [raises |-> None, country_code |-> country_code, national_number |-> national_number]

StartsWith(characters, prefix) ==
    Len(characters) >= Len(prefix) /\ SubSeq(characters, 1, Len(prefix)) = prefix

\* the number from its first digit or plus sign to its last digit or letter
_extract_possible_number(number) ==
    LET starts == Positions(number, DIGITS \cup {PLUS_SIGN})
        ends == Positions(number, DIGITS \cup LETTERS)
    IN  IF starts = {} \/ ends = {} \/ Max(ends) < Min(starts) THEN <<>>
        ELSE SubSeq(number, Min(starts), Max(ends))

\* two digits, or plus signs and then three digits among punctuation,
\* followed by digits, punctuation and letters
_is_viable_phone_number(number) ==
    LET after_plus == Positions(number, Range(number) \ {PLUS_SIGN})
        rest == IF after_plus = {} THEN <<>>
                ELSE SubSeq(number, Min(after_plus), Len(number))
        digits == Positions(rest, DIGITS)
    IN  \/ Len(number) = 2 /\ Range(number) \subseteq DIGITS
        \/ /\ Range(rest) \subseteq DIGITS \cup PUNCTUATION \cup LETTERS
           /\ Cardinality(digits) >= 3
           /\ \A i \in Positions(rest, LETTERS) :
                  Cardinality({d \in digits : d < i}) >= 3

\* the national number has a length and a leading digit of the region
_is_number_matching_desc(national_number, metadata) ==
    /\ Len(national_number) \in metadata.lengths
    /\ national_number[1] \in metadata.leading

\* the national prefix is dropped unless that turns a number of the region
\* into one that is not
_maybe_strip_national_prefix(number, metadata) ==
    IF StartsWith(number, metadata.national_prefix)
       /\ Len(number) > Len(metadata.national_prefix)
    THEN LET stripped == SubSeq(number, Len(metadata.national_prefix) + 1, Len(number))
         IN  IF _is_number_matching_desc(number, metadata)
                /\ ~_is_number_matching_desc(stripped, metadata)
             THEN number ELSE stripped
    ELSE number

\* phonenumbers.parse
parse(number, default_region) ==
    LET possible == _extract_possible_number(number)
        digits == SelectSeq(possible, LAMBDA c : c \in DIGITS)
        codes == {n \in 1..3 : /\ n <= Len(digits)
                               /\ \E region \in SUPPORTED_REGIONS :
                                      Metadata(region).country_code = SubSeq(digits, 1, n)}
        checked(country_code, national_number) ==
            IF Len(national_number) < MIN_LENGTH_FOR_NSN
            THEN NumberParseException("TOO_SHORT_NSN")
            ELSE IF Len(national_number) > MAX_LENGTH_FOR_NSN
            THEN NumberParseException("TOO_LONG")
            ELSE PhoneNumber(country_code, national_number)
    IN  IF Len(number) > MAX_INPUT_STRING_LENGTH
        THEN NumberParseException("TOO_LONG")
        ELSE IF ~_is_viable_phone_number(possible)
        THEN NumberParseException("NOT_A_NUMBER")
        ELSE IF possible[1] = PLUS_SIGN
        THEN IF codes = {}
             THEN NumberParseException("INVALID_COUNTRY_CODE")
             ELSE LET country_code == SubSeq(digits, 1, Min(codes))
                      metadata == Metadata(region_code_for_country_code(country_code))
                  IN  checked(country_code,
                              _maybe_strip_national_prefix(
                                  SubSeq(digits, Min(codes) + 1, Len(digits)), metadata))
        ELSE IF default_region \notin SUPPORTED_REGIONS
        THEN NumberParseException("INVALID_COUNTRY_CODE")
        ELSE LET metadata == Metadata(default_region)
                 potential == SubSeq(digits, Len(metadata.country_code) + 1, Len(digits))
             IN  IF /\ StartsWith(digits, metadata.country_code)
                    /\ ~_is_number_matching_desc(digits, metadata)
                    /\ _is_number_matching_desc(
                           _maybe_strip_national_prefix(potential, metadata), metadata)
                 THEN checked(metadata.country_code,
                              _maybe_strip_national_prefix(potential, metadata))
                 ELSE checked(metadata.country_code,
                              _maybe_strip_national_prefix(digits, metadata))

\* phonenumbers.is_valid_number
is_valid_number(number) ==
    _is_number_matching_desc(number.national_number,
        Metadata(region_code_for_country_code(number.country_code)))

\* phonenumbers.format_number(number, PhoneNumberFormat.E164)
format_number(number) ==
    PLUS_SIGN \o string_of(number.country_code) \o string_of(number.national_number)

\* mutant: the number is formatted for national dialling
format_number_national(number) ==
    string_of(Metadata(region_code_for_country_code(number.country_code)).national_prefix)
        \o string_of(number.national_number)

(* shared/phone.py *)

\* what a call of normalize_phone ends in: a value (None when absent)
PhoneReturned(value) == [raises |-> None, value |-> value]

\* mutant: the NumberParseException of the parser is not caught
normalize_phone_uncaught(phone, default_region) ==
    IF phone = None \/ phone = "" \/ strip_chars(chars(phone)) = <<>>
    THEN PhoneReturned(None)
    ELSE LET number == parse(strip_chars(chars(phone)), default_region)
         IN  IF number.raises # None THEN [raises |-> number.raises]
             ELSE IF ~is_valid_number(number) THEN PhoneReturned(None)
             ELSE PhoneReturned(format_number(number))

\* mutant: the result is in national format
normalize_phone_national(phone, default_region) ==
    IF phone = None \/ phone = "" \/ strip_chars(chars(phone)) = <<>>
    THEN PhoneReturned(None)
    ELSE LET number == parse(strip_chars(chars(phone)), default_region)
         IN  IF number.raises = "NumberParseException" THEN PhoneReturned(None)
             ELSE IF ~is_valid_number(number) THEN PhoneReturned(None)
             ELSE PhoneReturned(format_number_national(number))

normalize_phone(phone, default_region) ==
    IF phone = None \/ phone = "" \/ strip_chars(chars(phone)) = <<>>
    THEN PhoneReturned(None)
    ELSE LET number == parse(strip_chars(chars(phone)), default_region)
         IN  IF number.raises = "NumberParseException" THEN PhoneReturned(None)
             ELSE IF ~is_valid_number(number) THEN PhoneReturned(None)
             ELSE PhoneReturned(format_number(number))

----------------------------------------------------------------------------
(* tally/parse.py: payloads and parsed records *)

SignupPayloads ==
    { [form |-> "signup", registration_id |-> r, event_id |-> e,
       phone |-> a.phone, email |-> a.email, full_name |-> a.full_name,
       form_phone |-> a.phone] :
      r \in Opt(RegistrationIds), e \in Opt(EventIds), a \in SignupAnswers }

PaymentPayloads ==
    { [form |-> "payment", registration_id |-> r, event_id |-> e,
       phone |-> a.phone, all_done |-> a.all_done] :
      r \in Opt(RegistrationIds), e \in Opt(EventIds), a \in PaymentAnswers }

NoPayload == [form |-> "none"]

\* settings.default_phone_region
DEFAULT_PHONE_REGION == "NL"

\* normalize_phone(phone_raw, settings.default_phone_region), for the phones
\* the submissions carry
phone_e164_of ==
    [phone_raw \in {a.phone : a \in SignupAnswers \cup PaymentAnswers} \ {None} |->
        normalize_phone(phone_raw, DEFAULT_PHONE_REGION).value]

parse_tally_payload(payload) ==
    LET phone_raw == payload.phone
        phone_e164 == IF phone_raw # None THEN phone_e164_of[phone_raw] ELSE None
    IN  IF payload.form = "signup"
        THEN [event_id |-> payload.event_id,
              registration_id |-> payload.registration_id,
              phone_raw |-> phone_raw,
              phone_e164 |-> phone_e164,
              email |-> payload.email,
              full_name |-> payload.full_name,
              raw_payload |-> payload,
              form_fields |-> [phone |-> payload.form_phone]]
        ELSE [event_id |-> payload.event_id,
              registration_id |-> payload.registration_id,
              phone_raw |-> phone_raw,
              phone_e164 |-> phone_e164,
              raw_payload |-> payload]

NoParsed == [raw_payload |-> NoPayload]

determine_form_type(st, form_id) ==
    IF form_id = st.tally_signup_form_id THEN "signup"
    ELSE IF form_id = st.tally_payment_form_id THEN "payment"
    ELSE None

----------------------------------------------------------------------------
(* config.py *)

TALLY_SIGNUP_FORM_ID == "form-signup"
TALLY_PAYMENT_FORM_ID == "form-payment"

\* a secret that is not configured is the empty string
Settings(verify, signup_secret, payment_secret) ==
    [tally_signup_form_id |-> TALLY_SIGNUP_FORM_ID,
     tally_payment_form_id |-> TALLY_PAYMENT_FORM_ID,
     verify_tally_signature |-> verify,
     tally_signup_secret |-> signup_secret,
     tally_payment_secret |-> payment_secret]

\* the configurations the service is run under here: verification off (the
\* default), and on with the signup secret set and the payment secret
\* missing
DeployedSettings ==
    { Settings(FALSE, "", ""),
      Settings(TRUE, "secret-a", "") }

----------------------------------------------------------------------------
(* tally/verify.py *)

\* HMAC-SHA256 as a collision-free digest of (body, secret)
compute_hmac_sha256(body, secret) == [hmac_sha256 |-> body, key |-> secret]

\* values of the tally-signature header: absent, the empty string, an ASCII
\* string (the text of some digest), a string with a non-ASCII character
NoHeader == [header |-> "absent"]
EmptyHeader == [header |-> "empty"]
NonAsciiHeader == [header |-> "non_ascii"]
AsciiHeader(text) == [header |-> "ascii", text |-> text]

Returned(is_valid, error) == [raises |-> None, is_valid |-> is_valid, error |-> error]
Raised(exception) == [raises |-> exception]

\* hmac.compare_digest raises TypeError when a str argument holds a
\* non-ASCII character
verify_tally_signature(st, body, signature_header, ft) ==
    IF ~st.verify_tally_signature THEN Returned(TRUE, None)
    ELSE IF ft \notin {"signup", "payment"}
    THEN Returned(FALSE, "Unknown form type: " \o ft)
    ELSE LET secret == IF ft = "signup" THEN st.tally_signup_secret
                       ELSE st.tally_payment_secret
         IN  IF secret = ""
             THEN Returned(FALSE, "Signature verification enabled but no secret configured for "
                                  \o ft \o " form")
             ELSE IF signature_header \in {NoHeader, EmptyHeader}
             THEN Returned(FALSE, "Missing tally-signature header")
             ELSE IF signature_header = NonAsciiHeader
             THEN Raised("TypeError")
             ELSE IF signature_header.text # compute_hmac_sha256(body, secret)
             THEN Returned(FALSE, "Invalid signature")
             ELSE Returned(TRUE, None)

----------------------------------------------------------------------------
(* models.py *)

\* the row that process_signup builds from the parsed signup p at time t; the
\* payment columns take their defaults
\* mutant: a registration is created as already paid
Registration_created_paid(registration_id, event_id, p, t) ==
    [registration_id |-> registration_id,
     event_id |-> event_id,
     email |-> p.email,
     phone_e164 |-> p.phone_e164,
     full_name |-> p.full_name,
     signup_payload |-> p.raw_payload,
     signup_received_at |-> t,
     paid |-> TRUE,
     paid_at |-> t,
     payment_payload |-> NoPayload,
     payment_received_at |-> t,
     payment_claimed_registration_id |-> None,
     payment_claimed_phone_e164 |-> p.phone_e164,
     payment_link_status |-> "matched_by_phone",
     created_at |-> t,
     updated_at |-> t]

Registration(registration_id, event_id, p, t) ==
    [registration_id |-> registration_id,
     event_id |-> event_id,
     email |-> p.email,
     phone_e164 |-> p.phone_e164,
     full_name |-> p.full_name,
     signup_payload |-> p.raw_payload,
     signup_received_at |-> t,
     paid |-> FALSE,
     paid_at |-> NoTime,
     payment_payload |-> NoPayload,
     payment_received_at |-> NoTime,
     payment_claimed_registration_id |-> None,
     payment_claimed_phone_e164 |-> None,
     payment_link_status |-> "unpaid",
     created_at |-> t,
     updated_at |-> t]

Signup(form_fields) == [phone |-> form_fields.phone]

Payment(phone, status, recognized) ==
    [phone |-> phone, status |-> status, recognized |-> recognized]

\* INSERT of the audit rows a session has added: the server fills
\* received_at / arrived_at (server_default now()) with its time t
insert_signups(rows, t) ==
    [i \in 1..Len(rows) |-> [phone |-> rows[i].phone, received_at |-> t]]

insert_payments(rows, t) ==
    [i \in 1..Len(rows) |->
        [phone |-> rows[i].phone, status |-> rows[i].status,
         recognized |-> rows[i].recognized, arrived_at |-> t]]

----------------------------------------------------------------------------
(* services/payment.py *)

MATCHED_BY_REGISTRATION_ID == "matched_by_registration_id"
MATCHED_BY_PHONE == "matched_by_phone"
ORPHAN_PAYMENT == "orphan_payment"
AMBIGUOUS_PHONE_MATCH == "ambiguous_phone_match"

PaymentResult(success, registration_id, link_status, is_emergency, error_message) ==
    [success |-> success, registration_id |-> registration_id,
     link_status |-> link_status, is_emergency |-> is_emergency,
     error_message |-> error_message]

\* mutant: the link status passed by the caller is not used
_mark_paid_ignores_status(registration, p, t, status) ==
    [registration EXCEPT
        !.paid = TRUE,
        !.paid_at = t,
        !.payment_payload = p.raw_payload,
        !.payment_received_at = t,
        !.payment_claimed_registration_id = p.registration_id,
        !.payment_claimed_phone_e164 = p.phone_e164,
        !.payment_link_status = MATCHED_BY_PHONE,
        !.updated_at = t]

\* mutant: the time of the payment is not stored
_mark_paid_without_time(registration, p, t, status) ==
    [registration EXCEPT
        !.paid = TRUE,
        !.payment_payload = p.raw_payload,
        !.payment_received_at = t,
        !.payment_claimed_registration_id = p.registration_id,
        !.payment_claimed_phone_e164 = p.phone_e164,
        !.payment_link_status = status,
        !.updated_at = t]

\* mutant: the phone the payment claims is also stored as the contact phone
_mark_paid_copies_phone(registration, p, t, status) ==
    [registration EXCEPT
        !.paid = TRUE,
        !.paid_at = t,
        !.payment_payload = p.raw_payload,
        !.payment_received_at = t,
        !.payment_claimed_registration_id = p.registration_id,
        !.payment_claimed_phone_e164 = p.phone_e164,
        !.phone_e164 = p.phone_e164,
        !.payment_link_status = status,
        !.updated_at = t]

_mark_paid(registration, p, t, status) ==
    [registration EXCEPT
        !.paid = TRUE,
        !.paid_at = t,
        !.payment_payload = p.raw_payload,
        !.payment_received_at = t,
        !.payment_claimed_registration_id = p.registration_id,
        !.payment_claimed_phone_e164 = p.phone_e164,
        !.payment_link_status = status,
        !.updated_at = t]

\* mutant: the event_id condition of the query is missing
_find_by_phone_only(regs, event_id, phone_e164) ==
    {r \in DOMAIN regs : regs[r].phone_e164 = phone_e164}

\* mutant: the phone_e164 condition of the query is missing
_find_by_event_only(regs, event_id, phone_e164) ==
    {r \in DOMAIN regs : regs[r].event_id = event_id}

\* mutant: the query skips registrations that are already paid
_find_unpaid_by_event_and_phone(regs, event_id, phone_e164) ==
    {r \in DOMAIN regs :
        /\ regs[r].event_id = event_id
        /\ regs[r].phone_e164 = phone_e164
        /\ ~regs[r].paid}

_find_by_event_and_phone(regs, event_id, phone_e164) ==
    {r \in DOMAIN regs :
        regs[r].event_id = event_id /\ regs[r].phone_e164 = phone_e164}

_check_phone_in_signups(sgn, phone) ==
    \E i \in 1..Len(sgn) : sgn[i].phone = phone

\* mutant: the phone as typed is looked up, the canonical form only when
\* nothing was typed
_log_submission_raw_first(sgn, p) ==
    LET phone == IF p.phone_raw # None THEN p.phone_raw ELSE p.phone_e164
        recognized == IF phone # None THEN _check_phone_in_signups(sgn, phone)
                      ELSE FALSE
        status == p.raw_payload.all_done
    IN  Payment(phone, status, recognized)

_log_submission(sgn, p) ==
    LET phone == IF p.phone_e164 # None THEN p.phone_e164 ELSE p.phone_raw
        recognized == IF phone # None THEN _check_phone_in_signups(sgn, phone)
                      ELSE FALSE
        \* the value of the first field whose label contains "All done"; the
        \* payload carries it already resolved to its option text
        status == p.raw_payload.all_done
    IN  Payment(phone, status, recognized)

\* mutant: the raw phone, not the canonical one, counts as an identifier
has_identifier_raw_phone(p) == ~(p.registration_id = None /\ p.phone_raw = None)

\* line 66: "if not parsed.registration_id and not parsed.phone_e164" is the
\* negation of this
has_identifier(p) == ~(p.registration_id = None /\ p.phone_e164 = None)

\* mutant: the phone is not required for the phone query
has_event_only(p) == p.event_id # None

\* line 103: "if parsed.event_id and parsed.phone_e164"
has_event_and_phone(p) == p.event_id # None /\ p.phone_e164 # None

\* mutant: "len(matches) >= 1"
at_least_one(matches) == Cardinality(matches) >= 1

\* line 108: "if len(matches) == 1"
exactly_one(matches) == Cardinality(matches) = 1

\* mutant: a payment from a phone no signup audit row knows is not matched
\* by phone but reported as an orphan
process_payment_trusts_recognized(regs, sgn, p, t) ==
    IF ~has_identifier(p)
    THEN [registrations |-> regs, new_payments |-> <<>>,
          result |-> PaymentResult(FALSE, None, None, TRUE,
                "Payment has neither registration_id nor valid phone number")]
    ELSE IF p.registration_id # None /\ p.registration_id \in DOMAIN regs
    THEN [registrations |->
              [regs EXCEPT ![p.registration_id] =
                  _mark_paid(@, p, t, MATCHED_BY_REGISTRATION_ID)],
          new_payments |-> <<_log_submission(sgn, p)>>,
          result |-> PaymentResult(TRUE, p.registration_id,
                MATCHED_BY_REGISTRATION_ID, FALSE, None)]
    ELSE LET matches == IF has_event_and_phone(p) /\ _log_submission(sgn, p).recognized
                        THEN _find_by_event_and_phone(regs, p.event_id, p.phone_e164)
                        ELSE {}
         IN  IF exactly_one(matches)
             THEN LET r == CHOOSE m \in matches : TRUE
                  IN  [registrations |->
                           [regs EXCEPT ![r] = _mark_paid(@, p, t, MATCHED_BY_PHONE)],
                       new_payments |-> <<_log_submission(sgn, p)>>,
                       result |-> PaymentResult(TRUE, r, MATCHED_BY_PHONE, FALSE, None)]
             ELSE IF Cardinality(matches) > 1
             THEN [registrations |-> regs,
                   new_payments |-> <<_log_submission(sgn, p)>>,
                   result |-> PaymentResult(TRUE, None, AMBIGUOUS_PHONE_MATCH, TRUE,
                         "Multiple registrations found for phone " \o p.phone_e164)]
             ELSE [registrations |-> regs,
                   new_payments |-> <<_log_submission(sgn, p)>>,
                   result |-> PaymentResult(TRUE, None, ORPHAN_PAYMENT, TRUE,
                         "No matching registration found for payment")]

\* mutant: the orphan branch returns without logging the submission
process_payment_orphan_unlogged(regs, sgn, p, t) ==
    IF ~has_identifier(p)
    THEN [registrations |-> regs, new_payments |-> <<>>,
          result |-> PaymentResult(FALSE, None, None, TRUE,
                "Payment has neither registration_id nor valid phone number")]
    ELSE IF p.registration_id # None /\ p.registration_id \in DOMAIN regs
    THEN [registrations |->
              [regs EXCEPT ![p.registration_id] =
                  _mark_paid(@, p, t, MATCHED_BY_REGISTRATION_ID)],
          new_payments |-> <<_log_submission(sgn, p)>>,
          result |-> PaymentResult(TRUE, p.registration_id,
                MATCHED_BY_REGISTRATION_ID, FALSE, None)]
    ELSE LET matches == IF has_event_and_phone(p)
                        THEN _find_by_event_and_phone(regs, p.event_id, p.phone_e164)
                        ELSE {}
         IN  IF exactly_one(matches)
             THEN LET r == CHOOSE m \in matches : TRUE
                  IN  [registrations |->
                           [regs EXCEPT ![r] = _mark_paid(@, p, t, MATCHED_BY_PHONE)],
                       new_payments |-> <<_log_submission(sgn, p)>>,
                       result |-> PaymentResult(TRUE, r, MATCHED_BY_PHONE, FALSE, None)]
             ELSE IF Cardinality(matches) > 1
             THEN [registrations |-> regs,
                   new_payments |-> <<_log_submission(sgn, p)>>,
                   result |-> PaymentResult(TRUE, None, AMBIGUOUS_PHONE_MATCH, TRUE,
                         "Multiple registrations found for phone " \o p.phone_e164)]
             ELSE [registrations |-> regs,
                   new_payments |-> <<>>,
                   result |-> PaymentResult(TRUE, None, ORPHAN_PAYMENT, TRUE,
                         "No matching registration found for payment")]

\* mutant: the submission is logged before the identifiers are validated
process_payment_logs_first(regs, sgn, p, t) ==
    IF ~has_identifier(p)
    THEN [registrations |-> regs, new_payments |-> <<_log_submission(sgn, p)>>,
          result |-> PaymentResult(FALSE, None, None, TRUE,
                "Payment has neither registration_id nor valid phone number")]
    ELSE IF p.registration_id # None /\ p.registration_id \in DOMAIN regs
    THEN [registrations |->
              [regs EXCEPT ![p.registration_id] =
                  _mark_paid(@, p, t, MATCHED_BY_REGISTRATION_ID)],
          new_payments |-> <<_log_submission(sgn, p)>>,
          result |-> PaymentResult(TRUE, p.registration_id,
                MATCHED_BY_REGISTRATION_ID, FALSE, None)]
    ELSE LET matches == IF has_event_and_phone(p)
                        THEN _find_by_event_and_phone(regs, p.event_id, p.phone_e164)
                        ELSE {}
         IN  IF exactly_one(matches)
             THEN LET r == CHOOSE m \in matches : TRUE
                  IN  [registrations |->
                           [regs EXCEPT ![r] = _mark_paid(@, p, t, MATCHED_BY_PHONE)],
                       new_payments |-> <<_log_submission(sgn, p)>>,
                       result |-> PaymentResult(TRUE, r, MATCHED_BY_PHONE, FALSE, None)]
             ELSE IF Cardinality(matches) > 1
             THEN [registrations |-> regs,
                   new_payments |-> <<_log_submission(sgn, p)>>,
                   result |-> PaymentResult(TRUE, None, AMBIGUOUS_PHONE_MATCH, TRUE,
                         "Multiple registrations found for phone " \o p.phone_e164)]
             ELSE [registrations |-> regs,
                   new_payments |-> <<_log_submission(sgn, p)>>,
                   result |-> PaymentResult(TRUE, None, ORPHAN_PAYMENT, TRUE,
                         "No matching registration found for payment")]

\* mutant: the phone query is made first and the direct match is the fallback
process_payment_phone_first(regs, sgn, p, t) ==
    IF ~has_identifier(p)
    THEN [registrations |-> regs, new_payments |-> <<>>,
          result |-> PaymentResult(FALSE, None, None, TRUE,
                "Payment has neither registration_id nor valid phone number")]
    ELSE LET matches == IF has_event_and_phone(p)
                        THEN _find_by_event_and_phone(regs, p.event_id, p.phone_e164)
                        ELSE {}
         IN  IF exactly_one(matches)
             THEN LET r == CHOOSE m \in matches : TRUE
                  IN  [registrations |->
                           [regs EXCEPT ![r] = _mark_paid(@, p, t, MATCHED_BY_PHONE)],
                       new_payments |-> <<_log_submission(sgn, p)>>,
                       result |-> PaymentResult(TRUE, r, MATCHED_BY_PHONE, FALSE, None)]
             ELSE IF p.registration_id # None /\ p.registration_id \in DOMAIN regs
             THEN [registrations |->
                       [regs EXCEPT ![p.registration_id] =
                           _mark_paid(@, p, t, MATCHED_BY_REGISTRATION_ID)],
                   new_payments |-> <<_log_submission(sgn, p)>>,
                   result |-> PaymentResult(TRUE, p.registration_id,
                         MATCHED_BY_REGISTRATION_ID, FALSE, None)]
             ELSE IF Cardinality(matches) > 1
             THEN [registrations |-> regs,
                   new_payments |-> <<_log_submission(sgn, p)>>,
                   result |-> PaymentResult(TRUE, None, AMBIGUOUS_PHONE_MATCH, TRUE,
                         "Multiple registrations found for phone " \o p.phone_e164)]
             ELSE [registrations |-> regs,
                   new_payments |-> <<_log_submission(sgn, p)>>,
                   result |-> PaymentResult(TRUE, None, ORPHAN_PAYMENT, TRUE,
                         "No matching registration found for payment")]

process_payment(regs, sgn, p, t) ==
    IF ~has_identifier(p)
    THEN [registrations |-> regs, new_payments |-> <<>>,
          result |-> PaymentResult(FALSE, None, None, TRUE,
                "Payment has neither registration_id nor valid phone number")]
    ELSE IF p.registration_id # None /\ p.registration_id \in DOMAIN regs
    THEN [registrations |->
              [regs EXCEPT ![p.registration_id] =
                  _mark_paid(@, p, t, MATCHED_BY_REGISTRATION_ID)],
          new_payments |-> <<_log_submission(sgn, p)>>,
          result |-> PaymentResult(TRUE, p.registration_id,
                MATCHED_BY_REGISTRATION_ID, FALSE, None)]
    ELSE LET matches == IF has_event_and_phone(p)
                        THEN _find_by_event_and_phone(regs, p.event_id, p.phone_e164)
                        ELSE {}
         IN  IF exactly_one(matches)
             THEN LET r == CHOOSE m \in matches : TRUE
                  IN  [registrations |->
                           [regs EXCEPT ![r] = _mark_paid(@, p, t, MATCHED_BY_PHONE)],
                       new_payments |-> <<_log_submission(sgn, p)>>,
                       result |-> PaymentResult(TRUE, r, MATCHED_BY_PHONE, FALSE, None)]
             ELSE IF Cardinality(matches) > 1
             THEN [registrations |-> regs,
                   new_payments |-> <<_log_submission(sgn, p)>>,
                   result |-> PaymentResult(TRUE, None, AMBIGUOUS_PHONE_MATCH, TRUE,
                         "Multiple registrations found for phone " \o p.phone_e164)]
             ELSE [registrations |-> regs,
                   new_payments |-> <<_log_submission(sgn, p)>>,
                   result |-> PaymentResult(TRUE, None, ORPHAN_PAYMENT, TRUE,
                         "No matching registration found for payment")]

----------------------------------------------------------------------------
(* services/signup.py *)

SignupResult(success, registration_id, is_new, error_message) ==
    [success |-> success, registration_id |-> registration_id,
     is_new |-> is_new, error_message |-> error_message]

\* mutant: the value is drawn once, every call returns the same one
uuid4_drawn_once(n) == "0"

\* the n-th value drawn is distinct from every earlier one
uuid4(n) == ToString(n)

\* mutant: the update resets the link status as a creation does
update_registration_resets_status(existing, event_id, p, t) ==
    [existing EXCEPT
        !.event_id = event_id,
        !.email = p.email,
        !.phone_e164 = p.phone_e164,
        !.full_name = p.full_name,
        !.signup_payload = p.raw_payload,
        !.signup_received_at = t,
        !.payment_link_status = "unpaid",
        !.updated_at = t]

\* mutant: the update rebuilds the row as a creation does
update_registration_as_new(existing, event_id, p, t) ==
    Registration(existing.registration_id, event_id, p, t)

\* mutant: the update leaves full_name out
update_registration_drops_name(existing, event_id, p, t) ==
    [existing EXCEPT
        !.event_id = event_id,
        !.email = p.email,
        !.phone_e164 = p.phone_e164,
        !.full_name = None,
        !.signup_payload = p.raw_payload,
        !.signup_received_at = t,
        !.updated_at = t]

\* mutant: a re-signup starts the registration over as unpaid
update_registration_unpays(existing, event_id, p, t) ==
    [existing EXCEPT
        !.event_id = event_id,
        !.email = p.email,
        !.phone_e164 = p.phone_e164,
        !.full_name = p.full_name,
        !.signup_payload = p.raw_payload,
        !.signup_received_at = t,
        !.paid = FALSE,
        !.payment_link_status = "unpaid",
        !.updated_at = t]

update_registration(existing, event_id, p, t) ==
    [existing EXCEPT
        !.event_id = event_id,
        !.email = p.email,
        !.phone_e164 = p.phone_e164,
        !.full_name = p.full_name,
        !.signup_payload = p.raw_payload,
        !.signup_received_at = t,
        !.updated_at = t]

\* _log_submission of services/signup.py (the payment service has its own)
_log_signup_submission(p) == Signup(p.form_fields)

process_signup(regs, p, t, u) ==
    LET gen_rid == p.registration_id = None
        u1 == IF gen_rid THEN u + 1 ELSE u
        registration_id == IF gen_rid THEN "REG-" \o uuid4(u1) ELSE p.registration_id
        gen_eid == p.event_id = None
        u2 == IF gen_eid THEN u1 + 1 ELSE u1
        event_id == IF gen_eid THEN "EVT-" \o uuid4(u2) ELSE p.event_id
        is_new == registration_id \notin DOMAIN regs
    IN  [registrations |->
            IF ~is_new
            THEN [regs EXCEPT ![registration_id] =
                      update_registration(@, event_id, p, t)]
            ELSE [r \in DOMAIN regs \cup {registration_id} |->
                      IF r = registration_id
                      THEN Registration(registration_id, event_id, p, t)
                      ELSE regs[r]],
         new_signups |-> <<_log_signup_submission(p)>>,
         result |-> SignupResult(TRUE, registration_id, is_new, None),
         uuid_count |-> u2]

----------------------------------------------------------------------------
(* main.py *)

HTTPException(status_code, detail) == [http |-> status_code, detail |-> detail]

_handle_signup(res) ==
    IF ~res.success
    THEN HTTPException(400, IF res.error_message # None THEN res.error_message
                            ELSE "Failed to process signup")
    ELSE [http |-> 201, status |-> "received", form_type |-> "signup",
          registration_id |-> res.registration_id, link_status |-> None,
          is_emergency |-> FALSE,
          message |-> IF res.is_new THEN "created" ELSE "updated"]

_handle_payment(res) ==
    IF ~res.success
    THEN HTTPException(400, IF res.error_message # None THEN res.error_message
                            ELSE "Failed to process payment")
    ELSE [http |-> 201, status |-> "received", form_type |-> "payment",
          registration_id |-> res.registration_id,
          link_status |-> res.link_status,
          is_emergency |-> res.is_emergency,
          message |-> IF res.is_emergency THEN res.error_message ELSE "paid"]

\* a request body: whether it is JSON, its data.formId and its data.fields
Body(json, form_id, data) == [json |-> json, form_id |-> form_id, data |-> data]

\* the body Tally posts for a form submission
Submission(payload) ==
    Body(TRUE, IF payload.form = "signup" THEN TALLY_SIGNUP_FORM_ID
               ELSE TALLY_PAYMENT_FORM_ID, payload)

\* not JSON, JSON without formId, JSON of a form this service does not know
MalformedBodies ==
    { Body(FALSE, None, NoPayload), Body(TRUE, None, NoPayload),
      Body(TRUE, "form-other", NoPayload) }

\* a rejection is decided on formId, header and digest alone: the
\* submissions with every field left blank stand for all of them
BlankSubmissions ==
    {Submission(p) : p \in {q \in SignupPayloads \cup PaymentPayloads :
        q.registration_id = None /\ q.event_id = None /\ q.phone = None}}

Bodies == MalformedBodies \cup BlankSubmissions

\* the tally-signature headers a body can arrive with: none, empty,
\* non-ASCII, its digest under either secret
Headers(body) ==
    {NoHeader, EmptyHeader, NonAsciiHeader}
        \cup {AsciiHeader(compute_hmac_sha256(body, k)) : k \in {"secret-a", "secret-b"}}

Rejected(exception) == [route |-> "rejected", response |-> exception]

\* mutant: the signature is verified before the form id is looked up
receive_tally_webhook_verifies_first(st, body, signature_header) ==
    IF ~body.json
    THEN Rejected(HTTPException(400, "Invalid JSON payload"))
    ELSE IF body.form_id = None
    THEN Rejected(HTTPException(400, "Missing formId in payload"))
    ELSE LET ft == determine_form_type(st, body.form_id)
             v == verify_tally_signature(st, body, signature_header, ft)
         IN  IF v.raises # None
             THEN Rejected(HTTPException(500, "Internal Server Error"))
             ELSE IF ~v.is_valid
             THEN Rejected(HTTPException(401, v.error))
             ELSE IF ft = None
             THEN Rejected(HTTPException(400, "Unknown form_id: " \o body.form_id))
             ELSE [route |-> ft, parsed |-> parse_tally_payload(body.data)]

\* receive_tally_webhook up to the routing: the handler to run, or the
\* HTTPException raised before it, or the 500 of an exception nothing catches
receive_tally_webhook(st, body, signature_header) ==
    IF ~body.json
    THEN Rejected(HTTPException(400, "Invalid JSON payload"))
    ELSE IF body.form_id = None
    THEN Rejected(HTTPException(400, "Missing formId in payload"))
    ELSE LET ft == determine_form_type(st, body.form_id)
         IN  IF ft = None
             THEN Rejected(HTTPException(400, "Unknown form_id: " \o body.form_id))
             ELSE LET v == verify_tally_signature(st, body, signature_header, ft)
                  IN  IF v.raises # None
                      THEN Rejected(HTTPException(500, "Internal Server Error"))
                      ELSE IF ~v.is_valid
                      THEN Rejected(HTTPException(401, v.error))
                      ELSE [route |-> ft, parsed |-> parse_tally_payload(body.data)]

\* the answer of the endpoint to one request, on the tables regs and sgn
webhook_response(st, body, signature_header, regs, sgn, t, u) ==
    LET rcv == receive_tally_webhook(st, body, signature_header)
    IN  IF rcv.route = "rejected" THEN rcv.response
        ELSE IF rcv.route = "signup"
        THEN _handle_signup(process_signup(regs, rcv.parsed, t, u).result)
        ELSE _handle_payment(process_payment(regs, sgn, rcv.parsed, t).result)

\* the responses of the requests that raise before any handler runs
Rejections(st) ==
    {rcv.response :
        rcv \in {r \in UNION {{receive_tally_webhook(st, body, h) : h \in Headers(body)} :
                                  body \in Bodies} : r.route = "rejected"}}

\* some tally-signature header lets the submission through to its handler
Routed(st, payload, ft) ==
    {h \in Headers(Submission(payload)) :
        receive_tally_webhook(st, Submission(payload), h).route = ft} # {}

----------------------------------------------------------------------------
(* State machine *)

NoResult == [success |-> FALSE]
NoResponse == [http |-> 0]
NoPrev == [repeat |-> FALSE, committed |-> FALSE, result |-> NoResult]
EmptyTable == [r \in {} |-> None]

SessionIds == {"s1", "s2"}
Closed == [phase |-> "closed"]

NoCall == [fn |-> "none"]
NoReturn == [raises |-> "nothing returned"]

\* no request received yet
Started ==
    /\ registrations = EmptyTable
    /\ signups = <<>>
    /\ payments = <<>>
    /\ session = [registrations |-> EmptyTable, new_signups |-> <<>>,
                  new_payments |-> <<>>]
    /\ phase = "idle"
    /\ form_type = "none"
    /\ parsed = NoParsed
    /\ result = NoResult
    /\ response = NoResponse
    /\ now = 0
    /\ uuid_count = 0
    /\ committed = FALSE
    /\ prev = NoPrev
    /\ sessions = [s \in SessionIds |-> Closed]

Init ==
    /\ Started
    /\ settings \in DeployedSettings
    /\ call = NoCall
    /\ returned = NoReturn

History(ft, p) ==
    [repeat |-> form_type = ft /\ parsed = p, committed |-> committed,
     result |-> result]

ReceiveSignup ==
    /\ phase = "idle"
    /\ now < MaxRequests
    /\ \E payload \in SignupPayloads :
        LET p == parse_tally_payload(payload)
            out == process_signup(registrations, p, now + 1, uuid_count)
        IN  /\ Routed(settings, payload, "signup")
            /\ parsed' = p
            /\ session' = [registrations |-> out.registrations,
                           new_signups |-> out.new_signups,
                           new_payments |-> <<>>]
            /\ result' = out.result
            /\ response' = _handle_signup(out.result)
            /\ uuid_count' = out.uuid_count
            /\ prev' = History("signup", p)
    /\ form_type' = "signup"
    /\ now' = now + 1
    /\ phase' = "handled"
    /\ UNCHANGED <<registrations, signups, payments, committed, settings, call, returned, sessions>>

\* a request that raises before any handler runs; the session it was given
\* holds no change
Reject ==
    /\ phase = "idle"
    /\ now < MaxRequests
    /\ response' \in Rejections(settings)
    /\ session' = [registrations |-> registrations, new_signups |-> <<>>,
                   new_payments |-> <<>>]
    /\ form_type' = "none"
    /\ parsed' = NoParsed
    /\ result' = NoResult
    /\ prev' = NoPrev
    /\ now' = now + 1
    /\ phase' = "handled"
    /\ UNCHANGED <<registrations, signups, payments, uuid_count, committed, settings, call, returned, sessions>>

ReceivePayment ==
    /\ phase = "idle"
    /\ now < MaxRequests
    /\ \E payload \in PaymentPayloads :
        LET p == parse_tally_payload(payload)
            out == process_payment(registrations, signups, p, now + 1)
        IN  /\ Routed(settings, payload, "payment")
            /\ parsed' = p
            /\ session' = [registrations |-> out.registrations,
                           new_signups |-> <<>>,
                           new_payments |-> out.new_payments]
            /\ result' = out.result
            /\ response' = _handle_payment(out.result)
            /\ prev' = History("payment", p)
    /\ form_type' = "payment"
    /\ now' = now + 1
    /\ phase' = "handled"
    /\ UNCHANGED <<registrations, signups, payments, uuid_count, committed, settings, call, returned, sessions>>

\* mutant: the audit tables are rewritten with the rows of the session
Commit_replaces_audit ==
    /\ phase = "handled"
    /\ response.http = 201
    /\ registrations' = session.registrations
    /\ signups' = IF session.new_signups = <<>> THEN signups
                  ELSE insert_signups(session.new_signups, now)
    /\ payments' = IF session.new_payments = <<>> THEN payments
                   ELSE insert_payments(session.new_payments, now)
    /\ committed' = TRUE
    /\ phase' = "idle"
    /\ prev' = NoPrev
    /\ UNCHANGED <<session, form_type, parsed, result, response, now, uuid_count,
                   settings, call, returned, sessions>>

Commit ==
    /\ phase = "handled"
    /\ response.http = 201
    /\ registrations' = session.registrations
    /\ signups' = signups \o insert_signups(session.new_signups, now)
    /\ payments' = payments \o insert_payments(session.new_payments, now)
    /\ committed' = TRUE
    /\ phase' = "idle"
    /\ prev' = NoPrev
    /\ UNCHANGED <<session, form_type, parsed, result, response, now, uuid_count,
                   settings, call, returned, sessions>>

\* mutant: the audit rows are written outside the unit of work and outlive
\* its rollback
Rollback_keeps_audit ==
    /\ phase = "handled"
    /\ signups' = signups \o insert_signups(session.new_signups, now)
    /\ payments' = payments \o insert_payments(session.new_payments, now)
    /\ committed' = FALSE
    /\ phase' = "idle"
    /\ prev' = NoPrev
    /\ UNCHANGED <<registrations, session, form_type, parsed, result, response, now,
                   uuid_count, settings, call, returned, sessions>>

Rollback ==
    /\ phase = "handled"
    /\ committed' = FALSE
    /\ phase' = "idle"
    /\ prev' = NoPrev
    /\ UNCHANGED <<registrations, signups, payments, session, form_type, parsed,
                   result, response, now, uuid_count, settings, call, returned, sessions>>

Next == ReceiveSignup \/ ReceivePayment \/ Reject \/ Commit \/ Rollback

Spec == Init /\ [][Next]_vars

----------------------------------------------------------------------------
(* verify_tally_signature called on its own, on every combination of        *)
(* settings, body, header and form type                                     *)

AllSettings ==
    {Settings(v, a, b) : v \in BOOLEAN, a \in {"", "secret-a"}, b \in {"", "secret-b"}}

\* the headers of Headers(body) and the digests of the other bodies
AllHeaders == UNION {Headers(body) : body \in Bodies}

VerifyCalls ==
    [fn : {"verify_tally_signature"}, body : Bodies, signature_header : AllHeaders,
     form_type : {"signup", "payment", "other"}]

InitVerify ==
    /\ Started
    /\ settings \in AllSettings
    /\ call \in VerifyCalls
    /\ returned = NoReturn

CallVerify ==
    /\ call.fn = "verify_tally_signature"
    /\ returned = NoReturn
    /\ returned' = verify_tally_signature(settings, call.body, call.signature_header,
                                          call.form_type)
    /\ UNCHANGED <<registrations, signups, payments, session, phase, form_type, parsed,
                   result, response, now, uuid_count, committed, prev, settings, call,
                   sessions>>

NextVerify == CallVerify

SpecVerify == InitVerify /\ [][NextVerify]_vars

----------------------------------------------------------------------------
(* tally/parse.py: the field extraction layer, called on its own            *)

MaxFields == 2

SIGNUP_FIELD_MAP ==
    [registration_id |-> <<"registration_id", "registrationId", "Registration ID">>,
     event_id |-> <<"event_id", "eventId", "Event ID">>,
     phone |-> <<"phone", "Phone", "phone_number", "Phone Number", "Mobile">>,
     email |-> <<"email", "Email", "email_address", "Email Address">>,
     full_name |-> <<"full_name", "name", "Name", "Full Name", "Your Name">>]

\* str.lower on the keys, labels and candidates of the model
lower(string) ==
    CASE string = "registrationId" -> "registrationid"
      [] string = "Registration ID" -> "registration id"
      [] string = "eventId" -> "eventid"
      [] string = "Event ID" -> "event id"
      [] string \in {"Phone", "PHONE"} -> "phone"
      [] string = "Phone Number" -> "phone number"
      [] string = "Mobile" -> "mobile"
      [] string = "Email" -> "email"
      [] string = "Email Address" -> "email address"
      [] string = "Name" -> "name"
      [] string = "Full Name" -> "full name"
      [] string = "Your Name" -> "your name"
      [] string = "question_EQROMA" -> "question_eqroma"
      [] string = "What's your first name?" -> "what's your first name?"
      [] string = "question_rA4Zvp" -> "question_ra4zvp"
      [] string = "Whats your phone number?" -> "whats your phone number?"
      [] string = "question_2NW67g" -> "question_2nw67g"
      [] OTHER -> string

\* the values a Tally field carries: null, a string, a list of strings, an integer
NullValue == [type |-> "null"]
StrValue(string) == [type |-> "str", text |-> string]
ListValue(items) == [type |-> "list", items |-> items]
IntValue(number) == [type |-> "int", number |-> number]

DigitChars == <<"0", "1", "2", "3", "4", "5", "6", "7", "8", "9">>

\* str(number) of a natural number
RECURSIVE str(_)
str(number) ==
    IF number < 10 THEN DigitChars[number + 1]
    ELSE str(number \div 10) \o DigitChars[(number % 10) + 1]

\* ", ".join(items)
RECURSIVE join(_)
join(items) ==
    IF Len(items) = 0 THEN ""
    ELSE IF Len(items) = 1 THEN items[1]
    ELSE items[1] \o ", " \o join(Tail(items))

_normalize_value(value) ==
    IF value.type = "null" THEN None
    ELSE IF value.type = "str"
    THEN IF strip(value.text) # "" THEN strip(value.text) ELSE None
    ELSE IF value.type = "int"
    THEN strip(str(value.number))
    ELSE LET kept == SelectSeq(value.items, LAMBDA v : v # "")
             non_empty == [i \in 1..Len(kept) |-> strip(kept[i])]
         IN  IF Len(non_empty) > 0 THEN join(non_empty) ELSE None

\* a Tally field; a missing key or label reads as ""
Field(key, label, value) == [key |-> key, label |-> label, value |-> value]

\* by_key / by_label: the value of the last field under each lowered name
RECURSIVE lookup_index(_, _)
lookup_index(fields, attr) ==
    IF Len(fields) = 0 THEN [name \in {} |-> NullValue]
    ELSE LET earlier == lookup_index(SubSeq(fields, 1, Len(fields) - 1), attr)
             field == fields[Len(fields)]
         IN  IF field[attr] # ""
             THEN [name \in DOMAIN earlier \cup {lower(field[attr])} |->
                       IF name = lower(field[attr]) THEN field.value ELSE earlier[name]]
             ELSE earlier

\* the loop over the candidates, from candidate i on
RECURSIVE search(_, _, _, _)
search(possible_keys, i, by_key, by_label) ==
    IF i > Len(possible_keys) THEN None
    ELSE LET candidate_lower == lower(possible_keys[i])
         IN  IF candidate_lower \in DOMAIN by_key
             THEN _normalize_value(by_key[candidate_lower])
             ELSE IF candidate_lower \in DOMAIN by_label
             THEN _normalize_value(by_label[candidate_lower])
             ELSE search(possible_keys, i + 1, by_key, by_label)

\* the loop of the mutant: each candidate is looked up among the labels first
RECURSIVE search_label_first(_, _, _, _)
search_label_first(possible_keys, i, by_key, by_label) ==
    IF i > Len(possible_keys) THEN None
    ELSE LET candidate_lower == lower(possible_keys[i])
         IN  IF candidate_lower \in DOMAIN by_label
             THEN _normalize_value(by_label[candidate_lower])
             ELSE IF candidate_lower \in DOMAIN by_key
             THEN _normalize_value(by_key[candidate_lower])
             ELSE search_label_first(possible_keys, i + 1, by_key, by_label)

\* mutant: the labels are consulted before the keys
extract_field_value_label_first(fields, logical_name, field_map) ==
    LET possible_keys == IF logical_name \in DOMAIN field_map
                         THEN field_map[logical_name] ELSE <<>>
    IN  IF Len(possible_keys) = 0 THEN None
        ELSE search_label_first(possible_keys, 1, lookup_index(fields, "key"),
                                lookup_index(fields, "label"))

extract_field_value(fields, logical_name, field_map) ==
    LET possible_keys == IF logical_name \in DOMAIN field_map
                         THEN field_map[logical_name] ELSE <<>>
    IN  IF Len(possible_keys) = 0 THEN None
        ELSE search(possible_keys, 1, lookup_index(fields, "key"),
                    lookup_index(fields, "label"))

FieldKeys == {"", "phone_number", "mobile"}
FieldLabels == {"", "PHONE", "Mobile"}
FieldValues ==
    {NullValue, StrValue("  "), StrValue(" a "), StrValue("b"), ListValue(<<" c ", "", "d">>)}
TallyFields == {Field(k, l, v) : k \in FieldKeys, l \in FieldLabels, v \in FieldValues}
LogicalNames == {"phone", "email", "nickname"}

ExtractCalls ==
    {[fn |-> "extract_field_value", fields |-> fields, logical_name |-> name] :
        fields \in UNION {[1..n -> TallyFields] : n \in 0..MaxFields},
        name \in LogicalNames}

InitExtract ==
    /\ Started
    /\ settings = Settings(FALSE, "", "")
    /\ call \in ExtractCalls
    /\ returned = NoReturn

CallExtract ==
    /\ call.fn = "extract_field_value"
    /\ returned = NoReturn
    /\ returned' = [value |-> extract_field_value(call.fields, call.logical_name,
                                                  SIGNUP_FIELD_MAP)]
    /\ UNCHANGED <<registrations, signups, payments, session, phase, form_type, parsed,
                   result, response, now, uuid_count, committed, prev, settings, call,
                   sessions>>

NextExtract == CallExtract

SpecExtract == InitExtract /\ [][NextExtract]_vars

----------------------------------------------------------------------------
(* tally/parse.py: the extraction of the whole profile of a signup          *)

\* three of the nineteen entries, in their declared order
FORM_FIELD_MAP ==
    [first_name |-> <<"question_EQROMA", "What's your first name?">>,
     phone |-> <<"question_rA4Zvp", "Whats your phone number?">>,
     creative_expression_score |-> <<"question_2NW67g", "creative expression">>]

FormAttrs == <<"first_name", "phone", "creative_expression_score">>

\* attr_name.endswith("_score")
ScoreAttrs == {"creative_expression_score"}

\* ExtractedFormFields(): a text attribute holds a string or None, a score
\* attribute holds an IntValue or NullValue
ExtractedFormFields ==
    [first_name |-> None, phone |-> None, creative_expression_score |-> NullValue]

\* a Tally field with its type tag and its choice options (id, text)
FormField(key, label, value, field_type, options) ==
    [key |-> key, label |-> label, value |-> value, type |-> field_type,
     options |-> options]

\* fields_by_key: the last field under each lowered key, the empty key included
RECURSIVE fields_by_key(_)
fields_by_key(fields) ==
    IF Len(fields) = 0 THEN [name \in {} |-> NullValue]
    ELSE LET earlier == fields_by_key(SubSeq(fields, 1, Len(fields) - 1))
             field == fields[Len(fields)]
         IN  [name \in DOMAIN earlier \cup {lower(field.key)} |->
                  IF name = lower(field.key) THEN field ELSE earlier[name]]

\* Python's truth value of a field value
truthy(value) ==
    CASE value.type = "null" -> FALSE
      [] value.type = "str" -> value.text # ""
      [] value.type = "list" -> Len(value.items) > 0
      [] value.type = "int" -> value.number # 0

\* int(raw_value): an integer as it is, a string of digits between blanks as
\* its number; any other string raises ValueError, a list raises TypeError
RECURSIVE number_of(_)
number_of(characters) ==
    IF Len(characters) = 0 THEN 0
    ELSE 10 * number_of(SubSeq(characters, 1, Len(characters) - 1))
         + (CHOOSE d \in 0..9 : DigitChars[d + 1] = characters[Len(characters)])

int(raw_value) ==
    CASE raw_value.type = "int" -> [raises |-> None, value |-> raw_value.number]
      [] raw_value.type = "str" ->
            LET digits == strip_chars(chars(raw_value.text))
            IN  IF Len(digits) > 0 /\ Range(digits) \subseteq DIGITS
                THEN [raises |-> None, value |-> number_of(digits)]
                ELSE [raises |-> "ValueError"]
      [] raw_value.type = "list" -> [raises |-> "TypeError"]

\* the option ids of the model are strings
_resolve_option_text(field) ==
    LET value == field.value
        options == field.options
        ids == {options[i].id : i \in 1..Len(options)}
        option_lookup == [id \in ids |->
            options[Max({i \in 1..Len(options) : options[i].id = id})].text]
    IN  IF ~truthy(value) \/ Len(options) = 0 THEN _normalize_value(value)
        ELSE IF value.type = "list"
        THEN join([i \in 1..Len(value.items) |->
                      IF value.items[i] \in ids THEN option_lookup[value.items[i]]
                      ELSE value.items[i]])
        ELSE IF value.type = "str" /\ value.text \in ids
        THEN option_lookup[value.text]
        ELSE _normalize_value(value)

\* the first candidate that is a key of the submission, from candidate i on
RECURSIVE first_key(_, _, _)
first_key(possible_keys, i, by_key) ==
    IF i > Len(possible_keys) THEN None
    ELSE IF lower(possible_keys[i]) \in DOMAIN by_key THEN lower(possible_keys[i])
    ELSE first_key(possible_keys, i + 1, by_key)

\* the value set on one attribute from the field found for it
attr_value(attr_name, field) ==
    IF field.type \in {"MULTIPLE_CHOICE", "DROPDOWN", "MULTI_SELECT"}
    THEN [raises |-> None,
          value |-> IF attr_name \in ScoreAttrs THEN NullValue
                    ELSE _resolve_option_text(field)]
    ELSE IF field.type = "LINEAR_SCALE"
    THEN IF field.value.type = "null"
         THEN [raises |-> None,
               value |-> IF attr_name \in ScoreAttrs THEN NullValue ELSE None]
         ELSE LET number == int(field.value)
              IN  IF number.raises # None THEN number
                  ELSE [raises |-> None,
                        value |-> IF attr_name \in ScoreAttrs
                                  THEN IntValue(number.value)
                                  ELSE IF number.value # 0 THEN str(number.value)
                                  ELSE None]
    ELSE [raises |-> None,
          value |-> IF attr_name \in ScoreAttrs THEN NullValue
                    ELSE _normalize_value(field.value)]

\* the loop over FORM_FIELD_MAP, from attribute i on: the first error ends it
RECURSIVE set_attrs(_, _, _)
set_attrs(extracted, i, by_key) ==
    IF i > Len(FormAttrs) THEN [raises |-> None, value |-> extracted]
    ELSE LET attr_name == FormAttrs[i]
             key == first_key(FORM_FIELD_MAP[attr_name], 1, by_key)
         IN  IF key = None THEN set_attrs(extracted, i + 1, by_key)
             ELSE LET set == attr_value(attr_name, by_key[key])
                  IN  IF set.raises # None THEN set
                      ELSE set_attrs([extracted EXCEPT ![attr_name] = set.value],
                                     i + 1, by_key)

extract_form_fields(fields) == set_attrs(ExtractedFormFields, 1, fields_by_key(fields))

\* receive_tally_webhook from the parsed payload on: an error of the parser
\* ends the request before process_signup, and the framework answers 500
route_signup(parse_result, sgn) ==
    IF parse_result.raises # None
    THEN [response |-> HTTPException(500, "Internal Server Error"), signups |-> sgn]
    ELSE [response |-> [http |-> 201],
          signups |-> Append(sgn, Signup(parse_result.value))]

FormKeys == {"question_EQROMA", "question_2NW67g", "question_x"}
FormLabels == {"What's your first name?", "creative expression"}
FormTypes == {"INPUT_TEXT", "LINEAR_SCALE", "MULTIPLE_CHOICE"}
FormValues == {NullValue, IntValue(4), StrValue("12"), StrValue("a")}
FormFields ==
    {FormField(k, l, v, t, IF t = "MULTIPLE_CHOICE"
                           THEN <<[id |-> "a", text |-> "b"]>> ELSE <<>>) :
        k \in FormKeys, l \in FormLabels, v \in FormValues, t \in FormTypes}

FormCalls ==
    {[fn |-> "parse_tally_payload", fields |-> fields] :
        fields \in UNION {[1..n -> FormFields] : n \in 0..MaxFields}}

InitForm ==
    /\ Started
    /\ settings = Settings(FALSE, "", "")
    /\ call \in FormCalls
    /\ returned = NoReturn

\* parse_tally_payload of a signup, as far as the profile goes: an error of
\* extract_form_fields is not caught
ParseForm ==
    /\ call.fn = "parse_tally_payload"
    /\ returned = NoReturn
    /\ returned' = extract_form_fields(call.fields)
    /\ UNCHANGED <<registrations, signups, payments, session, phase, form_type, parsed,
                   result, response, now, uuid_count, committed, prev, settings, call,
                   sessions>>

RouteForm ==
    /\ returned # NoReturn
    /\ response = NoResponse
    /\ response' = route_signup(returned, signups).response
    /\ signups' = route_signup(returned, signups).signups
    /\ UNCHANGED <<registrations, payments, session, phase, form_type, parsed,
                   result, now, uuid_count, committed, prev, settings, call,
                   returned, sessions>>

NextForm == ParseForm \/ RouteForm

SpecForm == InitForm /\ [][NextForm]_vars

----------------------------------------------------------------------------
(* shared/phone.py: normalize_phone called on its own, and called again on  *)
(* its own result                                                           *)

PhoneInputs ==
    { None, "", "   ", "invalid", "1", "12", "123", "+",
      "(415) 555-1234", "4155551234", "+14155551234", " +1 415 555 1234 ", "14155551234",
      "06 12345678", "+31612345678", "+31 6 12345678", "31612345678", "+31 06 12345678",
      "+31 6 1234", "+44 20 7946 0958", "+442079460958", "020 7946 0958", "+999 123456",
      "0612345678", "02079460958", "+3161234567890123456789" }

Regions == SUPPORTED_REGIONS \cup {"ZZ"}

PhoneCalls ==
    {[fn |-> "normalize_phone", phone |-> phone, default_region |-> region,
      first |-> NoReturn] : phone \in PhoneInputs, region \in Regions}

InitPhone ==
    /\ Started
    /\ settings = Settings(FALSE, "", "")
    /\ call \in PhoneCalls
    /\ returned = NoReturn

CallNormalizePhone ==
    /\ call.fn = "normalize_phone"
    /\ returned = NoReturn
    /\ returned' = normalize_phone(call.phone, call.default_region)
    /\ UNCHANGED <<registrations, signups, payments, session, phase, form_type, parsed,
                   result, response, now, uuid_count, committed, prev, settings, call,
                   sessions>>

\* the result of a first call is passed to a second one, with the same region
PassResult ==
    /\ call.fn = "normalize_phone"
    /\ call.first = NoReturn
    /\ returned # NoReturn
    /\ returned.raises = None
    /\ returned.value # None
    /\ call' = [fn |-> "normalize_phone", phone |-> returned.value,
                default_region |-> call.default_region, first |-> returned]
    /\ returned' = NoReturn
    /\ UNCHANGED <<registrations, signups, payments, session, phase, form_type, parsed,
                   result, response, now, uuid_count, committed, prev, settings,
                   sessions>>

NextPhone == CallNormalizePhone \/ PassResult

SpecPhone == InitPhone /\ [][NextPhone]_vars

----------------------------------------------------------------------------
(* The answer to the caller. get_session commits in the code that follows   *)
(* its yield; whether the framework runs that code before or after it sends *)
(* the response of the endpoint depends on the FastAPI release installed,   *)
(* which the repository does not pin: both orders are taken.                *)

\* the answer the caller got to request number n
Answer(n, resp) == [request |-> n, response |-> resp]

\* the request received last has not been answered yet
Pending == returned.request < now

InitServe ==
    /\ Started
    /\ settings \in DeployedSettings
    /\ call = NoCall
    /\ returned = Answer(0, NoResponse)

ServeSignup == ~Pending /\ ReceiveSignup

ServePayment == ~Pending /\ ReceivePayment

ServeReject == ~Pending /\ Reject

\* the response is sent and the session is closed afterwards
SendBeforeExit ==
    /\ phase = "handled"
    /\ Pending
    /\ returned' = Answer(now, response)
    /\ UNCHANGED <<registrations, signups, payments, session, phase, form_type, parsed,
                   result, response, now, uuid_count, committed, prev, settings, call,
                   sessions>>

\* the session was closed first: a commit that raised takes the place of
\* the response of the endpoint
SendAfterExit ==
    /\ phase = "idle"
    /\ Pending
    /\ returned' = Answer(now, IF response.http = 201 /\ ~committed
                               THEN HTTPException(500, "Internal Server Error")
                               ELSE response)
    /\ UNCHANGED <<registrations, signups, payments, session, phase, form_type, parsed,
                   result, response, now, uuid_count, committed, prev, settings, call,
                   sessions>>

NextServe ==
    \/ ServeSignup
    \/ ServePayment
    \/ ServeReject
    \/ SendBeforeExit
    \/ Commit
    \/ Rollback
    \/ SendAfterExit

SpecServe == InitServe /\ [][NextServe]_vars

----------------------------------------------------------------------------
(* The endpoint called on its own: one request, on the empty tables, under  *)
(* every combination of settings, body and header                           *)

AllBodies == MalformedBodies \cup {Submission(p) : p \in SignupPayloads \cup PaymentPayloads}

WebhookCalls ==
    UNION {{[fn |-> "receive_tally_webhook", body |-> body, signature_header |-> h] :
                h \in Headers(body)} : body \in AllBodies}

InitWebhook ==
    /\ Started
    /\ settings \in AllSettings
    /\ call \in WebhookCalls
    /\ returned = NoReturn

CallWebhook ==
    /\ call.fn = "receive_tally_webhook"
    /\ returned = NoReturn
    /\ returned' = webhook_response(settings, call.body, call.signature_header,
                                    registrations, signups, now + 1, uuid_count)
    /\ UNCHANGED <<registrations, signups, payments, session, phase, form_type, parsed,
                   result, response, now, uuid_count, committed, prev, settings, call,
                   sessions>>

NextWebhook == CallWebhook

SpecWebhook == InitWebhook /\ [][NextWebhook]_vars

----------------------------------------------------------------------------
(* Requests served at the same time.  Each request has its own session      *)
(* (db.py get_session); the engine is created without an isolation level,   *)
(* so the sessions run at the database default, READ COMMITTED: a handler   *)
(* reads the rows committed when it runs, and the flush at commit writes    *)
(* the columns the handler changed, over whatever was committed meanwhile.  *)

ConcSignupPayloads ==
    {q \in SignupPayloads : q.event_id # None /\ q.phone # None}

ConcPaymentPayloads ==
    {q \in PaymentPayloads : q.event_id # None /\ q.phone # "invalid"}

\* a session whose handler has returned: what it loaded, what it holds now
\* and what it has added
Open(ft, p, loaded, writes, res, resp, t) ==
    [phase |-> "handled", form_type |-> ft, parsed |-> p, loaded |-> loaded,
     registrations |-> writes.registrations, new_signups |-> writes.new_signups,
     new_payments |-> writes.new_payments, result |-> res, response |-> resp,
     t |-> t]

\* mutant: rows carry a version counter and the flush fails on a row that
\* was committed anew since the session loaded it
Conflict_or_stale(s) ==
    \/ \E r \in DOMAIN sessions[s].registrations \ DOMAIN sessions[s].loaded :
            r \in DOMAIN registrations
    \/ \E r \in DOMAIN sessions[s].loaded :
            /\ sessions[s].registrations[r] # sessions[s].loaded[r]
            /\ registrations[r] # sessions[s].loaded[r]

\* mutant: registration_id is not a primary key, the second INSERT goes through
Conflict_never(s) == FALSE

\* INSERT of a registration whose primary key is taken: IntegrityError
Conflict(s) ==
    \E r \in DOMAIN sessions[s].registrations \ DOMAIN sessions[s].loaded :
        r \in DOMAIN registrations

\* mutant: the flush writes every column of a row the session changed
flush_whole_rows(store, loaded, rows) ==
    [r \in DOMAIN store \cup DOMAIN rows |->
        IF r \notin DOMAIN rows THEN store[r]
        ELSE IF r \notin DOMAIN loaded THEN rows[r]
        ELSE IF rows[r] # loaded[r] THEN rows[r] ELSE store[r]]

\* the flush of a session: UPDATE of the changed columns of the rows it
\* loaded, INSERT of the rows it added
flush(store, loaded, rows) ==
    [r \in DOMAIN store \cup DOMAIN rows |->
        IF r \notin DOMAIN rows THEN store[r]
        ELSE IF r \notin DOMAIN loaded THEN rows[r]
        ELSE [c \in DOMAIN rows[r] |->
                IF rows[r][c] # loaded[r][c] THEN rows[r][c] ELSE store[r][c]]]

InitConc ==
    /\ Started
    /\ settings = Settings(FALSE, "", "")
    /\ call = NoCall
    /\ returned = NoReturn

ConcReceiveSignup(s) ==
    /\ sessions[s].phase # "handled"
    /\ now < MaxConcRequests
    /\ \E payload \in ConcSignupPayloads :
        LET p == parse_tally_payload(payload)
            out == process_signup(registrations, p, now + 1, uuid_count)
        IN  /\ sessions' = [sessions EXCEPT ![s] =
                    Open("signup", p, registrations,
                         [registrations |-> out.registrations,
                          new_signups |-> out.new_signups, new_payments |-> <<>>],
                         out.result, _handle_signup(out.result), now + 1)]
            /\ uuid_count' = out.uuid_count
    /\ now' = now + 1
    /\ UNCHANGED <<registrations, signups, payments, session, phase, form_type, parsed,
                   result, response, committed, prev, settings, call, returned>>

ConcReceivePayment(s) ==
    /\ sessions[s].phase # "handled"
    /\ now < MaxConcRequests
    /\ \E payload \in ConcPaymentPayloads :
        LET p == parse_tally_payload(payload)
            out == process_payment(registrations, signups, p, now + 1)
        IN  sessions' = [sessions EXCEPT ![s] =
                Open("payment", p, registrations,
                     [registrations |-> out.registrations, new_signups |-> <<>>,
                      new_payments |-> out.new_payments],
                     out.result, _handle_payment(out.result), now + 1)]
    /\ now' = now + 1
    /\ UNCHANGED <<registrations, signups, payments, session, phase, form_type, parsed,
                   result, response, uuid_count, committed, prev, settings, call,
                   returned>>

ConcCommit(s) ==
    /\ sessions[s].phase = "handled"
    /\ sessions[s].response.http = 201
    /\ ~Conflict(s)
    /\ registrations' = flush(registrations, sessions[s].loaded, sessions[s].registrations)
    /\ signups' = signups \o insert_signups(sessions[s].new_signups, now)
    /\ payments' = payments \o insert_payments(sessions[s].new_payments, now)
    /\ sessions' = [sessions EXCEPT ![s].phase = "committed"]
    /\ UNCHANGED <<session, phase, form_type, parsed, result, response, now, uuid_count,
                   committed, prev, settings, call, returned>>

ConcRollback(s) ==
    /\ sessions[s].phase = "handled"
    /\ sessions' = [sessions EXCEPT ![s].phase = "rolled back"]
    /\ UNCHANGED <<registrations, signups, payments, session, phase, form_type, parsed,
                   result, response, now, uuid_count, committed, prev, settings, call,
                   returned>>

NextConc ==
    \E s \in SessionIds :
        \/ ConcReceiveSignup(s)
        \/ ConcReceivePayment(s)
        \/ ConcCommit(s)
        \/ ConcRollback(s)

SpecConc == InitConc /\ [][NextConc]_vars

----------------------------------------------------------------------------
(* Properties.  In a state of phase "handled", registrations / signups /   *)
(* payments are the tables before the request and session holds the rows   *)
(* and audit records the request leaves behind.                            *)

Handled(ft) == phase = "handled" /\ form_type = ft

MatchedStatuses == {"matched_by_registration_id", "matched_by_phone"}

\* the registrations whose (event_id, phone_e164) is that of the payment p
PairOf(p) ==
    {r \in DOMAIN registrations :
        /\ registrations[r].event_id = p.event_id
        /\ registrations[r].phone_e164 = p.phone_e164}

\* the direct match does not apply and the phone query is made
PhoneBranch ==
    /\ Handled("payment")
    /\ parsed.registration_id \notin DOMAIN registrations
    /\ parsed.event_id # "None"
    /\ parsed.phone_e164 # "None"

\* the request leaves every registration as it was
NoRegistrationMutated == session.registrations = registrations

OneAuditRecord == Len(session.new_payments) = 1

OrphanResult ==
    /\ result.success
    /\ result.link_status = "orphan_payment"
    /\ result.is_emergency
    /\ result.error_message # "None"
    /\ result.registration_id = "None"

PaymentFields ==
    {"paid", "paid_at", "payment_payload", "payment_received_at",
     "payment_claimed_registration_id", "payment_claimed_phone_e164",
     "payment_link_status"}

\* C1: in the committed table and in the rows a request is about to commit,
\* every registration with paid = TRUE has payment_link_status
\* matched_by_registration_id or matched_by_phone.
C1_PaidImpliesMatched ==
    /\ \A r \in DOMAIN registrations :
          registrations[r].paid
              => registrations[r].payment_link_status \in MatchedStatuses
    /\ \A r \in DOMAIN session.registrations :
          session.registrations[r].paid
              => session.registrations[r].payment_link_status \in MatchedStatuses

\* a paid registration is committed and a signup has since updated it
C1_Witness ==
    /\ phase = "idle"
    /\ \E r \in DOMAIN registrations :
          /\ registrations[r].paid
          /\ registrations[r].signup_received_at > registrations[r].paid_at

\* C2: a payment whose registration_id is the key of an existing
\* registration leaves that registration paid with status
\* matched_by_registration_id, writes one payment audit record and returns
\* success, no emergency, matched_by_registration_id and that id.
C2_DirectMatch ==
    (Handled("payment") /\ parsed.registration_id \in DOMAIN registrations)
    => /\ session.registrations[parsed.registration_id].paid
       /\ session.registrations[parsed.registration_id].payment_link_status
              = "matched_by_registration_id"
       /\ OneAuditRecord
       /\ result.success
       /\ ~result.is_emergency
       /\ result.link_status = "matched_by_registration_id"
       /\ result.registration_id = parsed.registration_id

C2_Witness ==
    /\ Handled("payment")
    /\ parsed.registration_id \in DOMAIN registrations
    /\ ~registrations[parsed.registration_id].paid

\* C3: when the direct match does not apply, the payment has event_id and
\* canonical phone and exactly one registration has that pair, that
\* registration ends paid with status matched_by_phone, one audit record is
\* written and the result is success, no emergency, with that id.
C3_PhoneMatch ==
    (PhoneBranch /\ Cardinality(PairOf(parsed)) = 1)
    => \A r \in PairOf(parsed) :
          /\ session.registrations[r].paid
          /\ session.registrations[r].payment_link_status = "matched_by_phone"
          /\ OneAuditRecord
          /\ result.success
          /\ ~result.is_emergency
          /\ result.link_status = "matched_by_phone"
          /\ result.registration_id = r

\* one registration has the pair while another has the same phone under
\* another event
C3_Witness ==
    /\ PhoneBranch
    /\ Cardinality(PairOf(parsed)) = 1
    /\ \E r \in DOMAIN registrations :
          /\ registrations[r].phone_e164 = parsed.phone_e164
          /\ registrations[r].event_id # parsed.event_id

\* C4: when the phone query finds no registration, no registration is
\* mutated, one audit record is written and the result is success,
\* orphan_payment, emergency, with a message and no registration_id.
C4_ZeroMatches ==
    (PhoneBranch /\ PairOf(parsed) = {})
    => /\ NoRegistrationMutated
       /\ OneAuditRecord
       /\ OrphanResult

\* no registration has the pair although one has the event and another (or
\* the same) has the phone
C4_Witness ==
    /\ PhoneBranch
    /\ PairOf(parsed) = {}
    /\ \E r \in DOMAIN registrations : registrations[r].event_id = parsed.event_id
    /\ \E r \in DOMAIN registrations : registrations[r].phone_e164 = parsed.phone_e164

\* C5: when the phone query finds two or more registrations, no
\* registration is mutated, one audit record is written and the result is
\* success, ambiguous_phone_match, emergency, no registration_id.
C5_AmbiguousMatch ==
    (PhoneBranch /\ Cardinality(PairOf(parsed)) >= 2)
    => /\ NoRegistrationMutated
       /\ OneAuditRecord
       /\ result.success
       /\ result.link_status = "ambiguous_phone_match"
       /\ result.is_emergency
       /\ result.registration_id = "None"

C5_Witness == PhoneBranch /\ Cardinality(PairOf(parsed)) >= 2

\* C6: a payment with neither registration_id nor canonical phone is
\* rejected: success = FALSE, HTTP 400, no registration touched, no payment
\* audit record queued, and the request cannot be committed.
C6_ValidationFailure ==
    (/\ Handled("payment")
     /\ parsed.registration_id = "None"
     /\ parsed.phone_e164 = "None")
    => /\ ~result.success
       /\ response.http = 400
       /\ NoRegistrationMutated
       /\ session.new_payments = <<>>
       /\ ~ENABLED Commit

\* the rejected payment carries an event_id and a raw phone that did not
\* normalize, and the store holds a registration of that event
C6_Witness ==
    /\ Handled("payment")
    /\ parsed.registration_id = "None"
    /\ parsed.phone_e164 = "None"
    /\ parsed.phone_raw # "None"
    /\ \E r \in DOMAIN registrations : registrations[r].event_id = parsed.event_id

\* the payment has an identifier, no direct match, and lacks event_id or phone
FallbackBranch ==
    /\ Handled("payment")
    /\ ~(parsed.registration_id = "None" /\ parsed.phone_e164 = "None")
    /\ parsed.registration_id \notin DOMAIN registrations
    /\ (parsed.event_id = "None" \/ parsed.phone_e164 = "None")

\* C7: a payment with an identifier, no direct match, and no event_id or no
\* canonical phone is an orphan: no registration mutated, one audit record,
\* success, orphan_payment, emergency, no registration_id.
C7_FallbackOrphan ==
    FallbackBranch
    => /\ NoRegistrationMutated
       /\ OneAuditRecord
       /\ OrphanResult

\* both ways of missing the phone query, with a registration that the
\* missing half would have matched
C7_Witness ==
    /\ FallbackBranch
    /\ \/ /\ parsed.phone_e164 = "None"
          /\ \E r \in DOMAIN registrations :
                /\ registrations[r].event_id = parsed.event_id
                /\ registrations[r].phone_e164 = "None"
       \/ /\ parsed.event_id = "None"
          /\ \E r \in DOMAIN registrations :
                registrations[r].phone_e164 = parsed.phone_e164

\* a payment that repeats the parsed payment of the request just before it
RepeatedPayment == Handled("payment") /\ prev.repeat

\* C8: a payment that repeats the one just before it gets the same success,
\* link_status and matched registration (or none); when the first was
\* committed, the matched registration's paid flag, link status, claim
\* fields and payment payload stay as the first left them, and when none is
\* matched no registration changes.
C8_MatchingDeterminism ==
    RepeatedPayment
    => /\ result.success = prev.result.success
       /\ result.link_status = prev.result.link_status
       /\ result.registration_id = prev.result.registration_id
       /\ result.is_emergency = prev.result.is_emergency
       /\ (result.registration_id = "None") => NoRegistrationMutated
       /\ (prev.committed /\ result.registration_id # "None") =>
            LET before == registrations[result.registration_id]
                after == session.registrations[result.registration_id]
            IN  /\ after.paid = before.paid
                /\ after.payment_link_status = before.payment_link_status
                /\ after.payment_claimed_registration_id
                       = before.payment_claimed_registration_id
                /\ after.payment_claimed_phone_e164
                       = before.payment_claimed_phone_e164
                /\ after.payment_payload = before.payment_payload

\* the repeated payment was matched by phone and committed the first time
C8_Witness ==
    /\ RepeatedPayment
    /\ prev.committed
    /\ result.link_status = "matched_by_phone"

SameOn(a, b, fields) == \A f \in fields : a[f] = b[f]

SignupFields ==
    {"registration_id", "email", "phone_e164", "full_name", "signup_payload",
     "created_at"}

\* a committed signup is followed at once by a signup with the same record
RepeatedSignup == Handled("signup") /\ prev.repeat /\ prev.committed

\* C9 as stated: for any signup record, the second application finds the
\* registration of the first (is_new = FALSE, same id, no registration
\* added) and leaves its fields, event_id included, as the first left them
\* (the timestamps signup_received_at and updated_at apart); payment fields
\* are not altered.
C9_AsStated ==
    RepeatedSignup
    => /\ ~result.is_new
       /\ result.registration_id = prev.result.registration_id
       /\ DOMAIN session.registrations = DOMAIN registrations
       /\ SameOn(session.registrations[result.registration_id],
                 registrations[result.registration_id],
                 SignupFields \cup {"event_id"} \cup PaymentFields)

\* C9 (amended): for a signup record that carries a registration_id, the
\* second application has is_new = FALSE, adds no registration, and leaves
\* the registration's email, phone, name, signup payload and payment fields
\* as the first left them; its event_id too when the record carries an
\* event_id; signup_received_at and updated_at are set to the time of the
\* second application; every other registration is untouched.
C9_ReSignupIdempotence ==
    (RepeatedSignup /\ parsed.registration_id # "None")
    => LET id == parsed.registration_id
           before == registrations[id]
           after == session.registrations[id]
       IN  /\ ~result.is_new
           /\ result.registration_id = id
           /\ prev.result.registration_id = id
           /\ DOMAIN session.registrations = DOMAIN registrations
           /\ SameOn(after, before, SignupFields \cup PaymentFields)
           /\ (parsed.event_id # "None") => after.event_id = before.event_id
           /\ after.signup_received_at = now
           /\ after.updated_at = now
           /\ \A r \in DOMAIN registrations \ {id} :
                 session.registrations[r] = registrations[r]

\* the repeated record carries id, event, phone, email and name
C9_Witness ==
    /\ RepeatedSignup
    /\ parsed.registration_id # "None"
    /\ parsed.event_id # "None"
    /\ parsed.full_name # "None"
    /\ parsed.phone_e164 # "None"

\* C10: process_signup on an existing registration leaves its seven payment
\* fields unchanged, adds or removes no registration and leaves every other
\* registration unchanged.
C10_SignupKeepsPayment ==
    (Handled("signup") /\ ~result.is_new)
    => /\ result.registration_id \in DOMAIN registrations
       /\ DOMAIN session.registrations = DOMAIN registrations
       /\ SameOn(session.registrations[result.registration_id],
                 registrations[result.registration_id], PaymentFields)
       /\ \A r \in DOMAIN registrations \ {result.registration_id} :
             session.registrations[r] = registrations[r]

\* the updated registration is a paid one and the signup changes its email
C10_Witness ==
    /\ Handled("signup")
    /\ ~result.is_new
    /\ registrations[result.registration_id].paid
    /\ session.registrations[result.registration_id].email
           # registrations[result.registration_id].email

\* C11: a signup without registration_id returns is_new = TRUE, creates the
\* registration under an id no existing registration has, with paid = FALSE
\* and payment_link_status "unpaid", and leaves every existing registration
\* as it was.
C11_SignupWithoutIdCreates ==
    (Handled("signup") /\ parsed.registration_id = "None")
    => /\ result.success
       /\ result.is_new
       /\ result.registration_id \notin DOMAIN registrations
       /\ DOMAIN session.registrations
              = DOMAIN registrations \cup {result.registration_id}
       /\ ~session.registrations[result.registration_id].paid
       /\ session.registrations[result.registration_id].payment_link_status
              = "unpaid"
       /\ \A r \in DOMAIN registrations :
              session.registrations[r] = registrations[r]

\* the signup arrives when an earlier signup without registration_id is
\* already stored under a generated id, next to a paid registration
C11_Witness ==
    /\ Handled("signup")
    /\ parsed.registration_id = "None"
    /\ \E r \in DOMAIN registrations : registrations[r].paid
    /\ \E r \in DOMAIN registrations : r \notin RegistrationIds

StoreChanges ==
    \/ registrations' # registrations
    \/ signups' # signups
    \/ payments' # payments

\* the times of the committed audit rows
SignupTimes == {signups[i].received_at : i \in 1..Len(signups)}
PaymentTimes == {payments[i].arrived_at : i \in 1..Len(payments)}

\* C12: the committed tables change only in the commit of a request that
\* answered 201, and that step installs all of the request's writes at once:
\* its registration rows and its audit rows.  So in every committed state a
\* registration carrying the signup or the payment of time t stands next to
\* the audit row of time t, and a request that fails leaves nothing.
C12_AtomicUnitOfWork ==
    /\ [][StoreChanges
            => /\ phase = "handled"
               /\ response.http = 201
               /\ registrations' = session.registrations
               /\ Len(signups') = Len(signups) + Len(session.new_signups)
               /\ Len(payments') = Len(payments) + Len(session.new_payments)
               /\ \A i \in 1..Len(session.new_signups) :
                     signups'[Len(signups) + i].phone = session.new_signups[i].phone
               /\ \A i \in 1..Len(session.new_payments) :
                     /\ payments'[Len(payments) + i].phone = session.new_payments[i].phone
                     /\ payments'[Len(payments) + i].recognized
                            = session.new_payments[i].recognized]_vars
    /\ [](\A r \in DOMAIN registrations :
            /\ registrations[r].signup_received_at \in SignupTimes
            /\ registrations[r].created_at \in SignupTimes
            /\ registrations[r].paid_at # 0 => registrations[r].paid_at \in PaymentTimes)
    /\ [](\A i \in 1..Len(signups) :
            \E r \in DOMAIN registrations :
                /\ registrations[r].created_at <= signups[i].received_at
                /\ signups[i].received_at <= registrations[r].signup_received_at)

\* a payment is committed, registration and audit row together, after the
\* request before it was rolled back
C12_Witness ==
    /\ phase = "idle"
    /\ committed
    /\ \E r \in DOMAIN registrations :
          /\ registrations[r].created_at = 1
          /\ registrations[r].paid_at = 3
    /\ 3 \in PaymentTimes
    /\ 2 \notin SignupTimes \cup PaymentTimes

\* C14: a processed signup queues one signup audit row and no payment
\* audit row; a payment with one of the four outcomes queues one payment
\* audit row and no signup audit row; the commit of the request lengthens
\* the table of its own kind by one and leaves the other as it was.
C14_OneAuditRecordPerSubmission ==
    /\ []((Handled("signup") /\ result.success)
            => /\ Len(session.new_signups) = 1
               /\ session.new_payments = <<>>)
    /\ []((/\ Handled("payment")
           /\ result.link_status \in {"matched_by_registration_id", "matched_by_phone",
                                      "orphan_payment", "ambiguous_phone_match"})
            => /\ Len(session.new_payments) = 1
               /\ session.new_signups = <<>>)
    /\ [][(phase = "handled" /\ phase' = "idle" /\ committed')
            => /\ form_type = "signup"
                  => Len(signups') = Len(signups) + 1 /\ payments' = payments
               /\ form_type = "payment"
                  => Len(payments') = Len(payments) + 1 /\ signups' = signups]_vars

\* a new signup, an update signup and an orphan payment have each left
\* their audit row
C14_Witness ==
    /\ phase = "idle"
    /\ committed
    /\ form_type = "payment"
    /\ result.link_status = "orphan_payment"
    /\ Len(signups) = 2
    /\ Len(payments) = 1
    /\ Cardinality(DOMAIN registrations) = 1

IsPrefix(a, b) == Len(a) <= Len(b) /\ \A i \in 1..Len(a) : a[i] = b[i]

\* C15: every step leaves each committed audit row in place and unchanged:
\* the signups table and the payments table before the step are prefixes of
\* the tables after it.
C15_AuditAppendOnly ==
    [][IsPrefix(signups, signups') /\ IsPrefix(payments, payments')]_vars

\* both audit tables hold a row and a later request of the other kind has
\* been committed after it
C15_Witness ==
    /\ phase = "idle"
    /\ committed
    /\ Len(signups) >= 1
    /\ Len(payments) >= 1
    /\ Len(signups) + Len(payments) = 3

\* signup audit tables other than the committed one: empty, or one row
\* with any of the phones a form can carry
OtherSignupTables ==
    {<<>>} \cup {<<[phone |-> ph, received_at |-> 0]>> :
                    ph \in {"None", "06 12345678", "+31612345678", "invalid"}}

\* C16: process_payment on the same registrations and the same parsed
\* payment, run against any other signup audit table, returns the same
\* result and leaves the same registrations; the payments audit table is
\* not an input at all.
C16_DecisionIgnoresAudit ==
    Handled("payment")
    => \A sgn \in OtherSignupTables :
          LET other == process_payment(registrations, sgn, parsed, now)
          IN  /\ other.result.success = result.success
              /\ other.result.link_status = result.link_status
              /\ other.result.is_emergency = result.is_emergency
              /\ other.result.registration_id = result.registration_id
              /\ other.registrations = session.registrations

\* a payment matched by phone whose audit row is recognized under the
\* committed signup audit table and would not be under the empty one
C16_Witness ==
    /\ Handled("payment")
    /\ result.link_status = "matched_by_phone"
    /\ Len(payments) >= 1
    /\ session.new_payments[1].recognized
    /\ ~process_payment(registrations, <<>>, parsed, now).new_payments[1].recognized

\* the phone of a payment: the canonical phone, or the raw phone when there
\* is no canonical one
PhoneOf(p) == IF p.phone_e164 # "None" THEN p.phone_e164 ELSE p.phone_raw

C18_RejectedLeavesStore ==
    /\ []((phase = "handled" /\ response.http \in {400, 401})
            => /\ session.registrations = registrations
               /\ session.new_signups = <<>>
               /\ session.new_payments = <<>>)
    /\ [][(phase = "handled" /\ response.http \in {400, 401})
            => /\ registrations' = registrations
               /\ signups' = signups
               /\ payments' = payments]_vars

\* a request rejected with 401 has ended and the registration and the
\* audit row committed before it are there
C18_Witness ==
    /\ phase = "idle"
    /\ ~committed
    /\ response.http = 401
    /\ Cardinality(DOMAIN registrations) = 1
    /\ Len(signups) = 1

\* C20: every result of process_payment has is_emergency = TRUE exactly
\* when its link_status is orphan_payment or ambiguous_phone_match, and a
\* result with is_emergency = TRUE has success = TRUE.  The result of the
\* validation failure (payment.py 69-75) has success = FALSE, no link_status
\* and is_emergency = TRUE.
C20_EmergencyIsProcessedPayment ==
    Handled("payment")
    => /\ result.is_emergency
            <=> result.link_status \in {"orphan_payment", "ambiguous_phone_match"}
       /\ result.is_emergency => result.success

VerifyReturned == call.fn = "verify_tally_signature" /\ returned # NoReturn

SecretOf(ft) ==
    IF ft = "signup" THEN settings.tally_signup_secret ELSE settings.tally_payment_secret

\* C19: for the form kinds signup and payment verify_tally_signature returns
\* success when verification is disabled; otherwise the misconfigured-secret
\* failure when the secret of the form kind is empty, with or without a
\* header; otherwise the missing-header failure when there is no header;
\* otherwise "Invalid signature" when the header differs from the HMAC of
\* the body under that secret, and success when it equals it.  A header
\* with a non-ASCII character differs from the HMAC, and the call raises
\* TypeError instead of returning.
C19_VerifyOutcomes ==
    (VerifyReturned /\ call.form_type \in {"signup", "payment"})
    => /\ returned.raises = "None"
       /\ IF ~settings.verify_tally_signature
          THEN returned.is_valid
          ELSE IF SecretOf(call.form_type) = ""
          THEN /\ ~returned.is_valid
               /\ returned.error
                    = "Signature verification enabled but no secret configured for "
                        \o call.form_type \o " form"
          ELSE IF call.signature_header.header \in {"absent", "empty"}
          THEN ~returned.is_valid /\ returned.error = "Missing tally-signature header"
          ELSE IF call.signature_header
                    # [header |-> "ascii",
                       text |-> [hmac_sha256 |-> call.body,
                                 key |-> SecretOf(call.form_type)]]
          THEN ~returned.is_valid /\ returned.error = "Invalid signature"
          ELSE returned.is_valid

\* two sessions hold payments of the same (event_id, phone_e164) pair,
\* neither matched directly, decided on the same committed registrations
SamePairRace(a, b) ==
    /\ a # b
    /\ sessions[a].phase \in {"handled", "committed"}
    /\ sessions[b].phase \in {"handled", "committed"}
    /\ sessions[a].form_type = "payment"
    /\ sessions[b].form_type = "payment"
    /\ sessions[a].loaded = sessions[b].loaded
    /\ sessions[a].parsed.event_id = sessions[b].parsed.event_id
    /\ sessions[a].parsed.phone_e164 = sessions[b].parsed.phone_e164
    /\ sessions[a].parsed.phone_e164 # "None"
    /\ sessions[a].parsed.registration_id \notin DOMAIN sessions[a].loaded
    /\ sessions[b].parsed.registration_id \notin DOMAIN sessions[b].loaded

\* C13: nothing in the matcher or in the commit keeps two payments of the
\* same pair apart: whenever two sessions have decided such payments on the
\* same committed registrations, both carry the same decision (both
\* matched_by_phone on the same registration, or both orphan_payment, or
\* both ambiguous_phone_match), both answer 201, and each one still pending
\* can commit, also after the other has.
C13_RaceNotPrevented ==
    \A a \in {"s1", "s2"} : \A b \in {"s1", "s2"} :
        SamePairRace(a, b)
        => /\ sessions[a].result.link_status = sessions[b].result.link_status
           /\ sessions[a].result.link_status
                \in {"matched_by_phone", "orphan_payment", "ambiguous_phone_match"}
           /\ sessions[a].result.registration_id = sessions[b].result.registration_id
           /\ sessions[a].response.http = 201
           /\ sessions[a].phase = "handled" => ENABLED ConcCommit(a)

\* both sessions read the registration unpaid, both decided matched_by_phone
\* on it and both have committed: it is paid and two audit rows are written
C13_Witness ==
    /\ sessions["s1"].phase = "committed"
    /\ sessions["s2"].phase = "committed"
    /\ SamePairRace("s1", "s2")
    /\ sessions["s1"].result.link_status = "matched_by_phone"
    /\ sessions["s2"].result.link_status = "matched_by_phone"
    /\ \E r \in DOMAIN registrations :
          /\ sessions["s1"].result.registration_id = r
          /\ sessions["s2"].result.registration_id = r
          /\ ~sessions["s1"].loaded[r].paid
          /\ ~sessions["s2"].loaded[r].paid
          /\ registrations[r].paid
    /\ Len(payments) = 2

\* C25: when the payment's registration_id is the key of a registration R,
\* the result names R with matched_by_registration_id, R gets that status
\* and every other registration is left as it was, whichever registrations
\* have the payment's (event_id, phone_e164).
C25_DirectMatchPrecedence ==
    (Handled("payment") /\ parsed.registration_id \in DOMAIN registrations)
    => /\ result.link_status = "matched_by_registration_id"
       /\ result.registration_id = parsed.registration_id
       /\ DOMAIN session.registrations = DOMAIN registrations
       /\ session.registrations[parsed.registration_id].payment_link_status
              = "matched_by_registration_id"
       /\ session.registrations[parsed.registration_id].payment_payload
              = parsed.raw_payload
       /\ \A r \in DOMAIN registrations \ {parsed.registration_id} :
              session.registrations[r] = registrations[r]

\* the payment names R while its pair is that of exactly one registration
\* other than R
C25_Witness ==
    /\ Handled("payment")
    /\ parsed.registration_id \in DOMAIN registrations
    /\ Cardinality(PairOf(parsed)) = 1
    /\ parsed.registration_id \notin PairOf(parsed)

\* C27: whenever a payment commits, its link_status is the one
\* process_payment computes on the registrations committed at that moment.
C27_CommitsCurrentDecision ==
    [][\A s \in SessionIds :
          (ConcCommit(s) /\ sessions[s].form_type = "payment")
          => sessions[s].result.link_status
                 = process_payment(registrations, signups, sessions[s].parsed,
                                   sessions[s].t).result.link_status]_vars

\* session a re-signed registration r up and session b paid it, both on
\* the same committed row, and both have committed
ReSignupAndPayment(a, b, r) ==
    /\ sessions[a].phase = "committed"
    /\ sessions[b].phase = "committed"
    /\ sessions[a].form_type = "signup"
    /\ sessions[b].form_type = "payment"
    /\ sessions[a].parsed.registration_id = r
    /\ sessions[b].result.registration_id = r
    /\ r \in DOMAIN sessions[a].loaded
    /\ r \in DOMAIN sessions[b].loaded
    /\ sessions[a].loaded[r] = sessions[b].loaded[r]

\* C28: when a re-signup and a payment of the same registration both read
\* it before either commits and both commit, the registration ends paid,
\* with the payment fields of the payment and with the contact fields,
\* event_id and signup_payload of the re-signup.
C28_NoLostUpdate ==
    \A a \in SessionIds : \A b \in SessionIds : \A r \in DOMAIN registrations :
        ReSignupAndPayment(a, b, r)
        => /\ registrations[r].paid
           /\ registrations[r].payment_link_status = sessions[b].result.link_status
           /\ registrations[r].payment_link_status \in MatchedStatuses
           /\ SameOn(registrations[r], sessions[b].registrations[r], PaymentFields)
           /\ SameOn(registrations[r], sessions[a].registrations[r],
                     SignupFields \cup {"event_id", "signup_received_at"})

\* the re-signup changed the contact fields of an unpaid registration that
\* the payment, reading the same row, matched by its former phone
C28_Witness ==
    \E r \in DOMAIN registrations :
        /\ ReSignupAndPayment("s1", "s2", r)
        /\ ~sessions["s1"].loaded[r].paid
        /\ sessions["s1"].registrations[r].email # sessions["s1"].loaded[r].email
        /\ sessions["s2"].result.link_status = "matched_by_phone"
        /\ registrations[r].paid
        /\ registrations[r].email = sessions["s1"].registrations[r].email

\* sessions a and b, both on an empty store, each decided to create
\* registration r
CreationRace(a, b, r) ==
    /\ a # b
    /\ sessions[a].phase \in {"handled", "committed", "rolled back"}
    /\ sessions[b].phase \in {"handled", "committed", "rolled back"}
    /\ sessions[a].form_type = "signup"
    /\ sessions[b].form_type = "signup"
    /\ sessions[a].parsed.registration_id = r
    /\ sessions[b].parsed.registration_id = r
    /\ DOMAIN sessions[a].loaded = {}
    /\ DOMAIN sessions[b].loaded = {}

\* C29: of two concurrent signups that both create the same
\* registration_id, at most one commits; once one has, the other can only
\* roll back, the registration is the one the winner wrote and the signup
\* audit table holds the winner's record alone.
C29_OneCreationCommits ==
    \A a \in SessionIds : \A b \in SessionIds : \A r \in RegistrationIds :
        (CreationRace(a, b, r) /\ sessions[a].phase = "committed")
        => /\ sessions[b].phase # "committed"
           /\ sessions[b].phase = "handled" => ~ENABLED ConcCommit(b)
           /\ DOMAIN registrations = {r}
           /\ registrations[r] = sessions[a].registrations[r]
           /\ Len(signups) = 1
           /\ signups[1].phone = sessions[a].new_signups[1].phone

\* the first signup has committed its creation, the second has rolled back
C29_Witness ==
    /\ CreationRace("s1", "s2", "R1")
    /\ sessions["s1"].phase = "committed"
    /\ sessions["s2"].phase = "rolled back"
    /\ sessions["s1"].parsed.email # sessions["s2"].parsed.email
    /\ sessions["s2"].response.http = 201

\* the caller of the request received last was answered as processed
AnsweredReceived ==
    /\ returned.request = now
    /\ returned.response.http = 201
    /\ returned.response.status = "received"

\* C30: a request is answered as processed (status "received") only after
\* its unit of work has committed.
C30_CommitBeforeSuccess ==
    AnsweredReceived => phase = "idle" /\ committed

\* a payment was answered as received with an emergency, and the commit of
\* its unit of work then failed: nothing of it is stored
C30_Witness ==
    /\ AnsweredReceived
    /\ returned.response.is_emergency
    /\ phase = "idle"
    /\ ~committed
    /\ payments = <<>>

WebhookReturned == call.fn = "receive_tally_webhook" /\ returned # NoReturn

\* the body is JSON and its data object has no formId
NoFormId == call.body.json /\ call.body.form_id = "None"

\* C21 as stated: a request whose JSON body has a data object without
\* formId is answered with HTTP 201 and status "received".
C21_MissingFormIdAccepted ==
    (WebhookReturned /\ NoFormId)
    => returned.http = 201 /\ returned.status = "received"

\* the request of the test: no formId, no header, verification off
C21_Witness ==
    /\ WebhookReturned
    /\ NoFormId
    /\ call.signature_header = [header |-> "absent"]
    /\ ~settings.verify_tally_signature

\* the tally-signature header is missing, or is not the digest of the body
\* under a secret of the settings
MissingOrInvalid ==
    \/ call.signature_header.header \in {"absent", "empty", "non_ascii"}
    \/ \A k \in {settings.tally_signup_secret, settings.tally_payment_secret} :
            k = "" \/ call.signature_header # AsciiHeader(compute_hmac_sha256(call.body, k))

\* the form kind of the called body, None when the body has none
FormKind ==
    IF ~call.body.json \/ call.body.form_id = None THEN None
    ELSE determine_form_type(settings, call.body.form_id)

ExtractReturned == call.fn = "extract_field_value" /\ returned # NoReturn

\* the candidates of the called logical field, in declared order
Candidates ==
    IF call.logical_name \in DOMAIN SIGNUP_FIELD_MAP
    THEN SIGNUP_FIELD_MAP[call.logical_name] ELSE <<>>

\* the values of the fields whose key (label) is candidate i, case ignored
ValuesAt(attr, i) ==
    {call.fields[n].value : n \in {m \in 1..Len(call.fields) :
        /\ call.fields[m][attr] # ""
        /\ lower(call.fields[m][attr]) = lower(Candidates[i])}}

Hits == {i \in 1..Len(Candidates) : ValuesAt("key", i) \cup ValuesAt("label", i) # {}}

FirstHit == CHOOSE i \in Hits : \A j \in Hits : i <= j

\* C22: extract_field_value returns the normalized value of a field matched
\* by the first candidate, in declared order, that matches any key or label;
\* for that candidate a key match is taken before a label match, so a key
\* match of an earlier candidate is never overridden by a label match of a
\* later one; the result is absent when no candidate matches.
C22_ExtractionPrecedence ==
    ExtractReturned
    => IF Hits = {} THEN returned.value = None
       ELSE IF ValuesAt("key", FirstHit) # {}
       THEN returned.value \in {_normalize_value(v) : v \in ValuesAt("key", FirstHit)}
       ELSE returned.value \in {_normalize_value(v) : v \in ValuesAt("label", FirstHit)}

\* a key match of candidate 3 and a label-only match of candidate 5 with
\* another value: the key's value is returned
C22_Witness ==
    /\ ExtractReturned
    /\ call.logical_name = "phone"
    /\ call.fields = <<Field("", "Mobile", StrValue("b")),
                       Field("phone_number", "", StrValue(" a "))>>
    /\ returned.value = "a"

NormalizeReturned == call.fn = "normalize_phone" /\ returned # NoReturn

\* C23: when normalize_phone(x, R) is present, normalize_phone applied to
\* it with the same region R returns it again.
C23_NormalizeIdempotent ==
    (NormalizeReturned /\ call.first # NoReturn)
    => returned = call.first /\ returned.value = call.phone

\* a national Dutch number, normalized, and normalized again
C23_Witness ==
    /\ NormalizeReturned
    /\ call.first # NoReturn
    /\ call.default_region = "NL"
    /\ call.phone = "+31612345678"
    /\ returned.value = "+31612345678"

\* the inputs that are missing, empty or whitespace, that the parser
\* refuses, and that it parses to a number no region has
AbsentInputs ==
    {None, "", "   ", "invalid", "1", "+", "+999 123456", "+3161234567890123456789",
     "12", "123", "+31 6 1234"}

\* C24: normalize_phone never raises; a missing, empty, whitespace-only,
\* unparseable or parseable but invalid input gives an absent result.
C24_NormalizeNeverRaises ==
    NormalizeReturned
    => /\ returned.raises = None
       /\ call.phone \in AbsentInputs => returned.value = None
       /\ (call.default_region = "ZZ" /\ call.phone \in {"4155551234", "06 12345678"})
              => returned.value = None

\* the parser raised on a string without digits, and the result is absent
C24_Witness ==
    /\ NormalizeReturned
    /\ call.phone = "invalid"
    /\ parse(strip_chars(chars(call.phone)), call.default_region).raises
           = "NumberParseException"
    /\ returned = PhoneReturned(None)

\* the payment resolved to a registration that was committed as paid
PaidAgain(r) ==
    /\ Handled("payment")
    /\ result.success
    /\ result.registration_id = r
    /\ r \in DOMAIN registrations
    /\ registrations[r].paid

\* C31: a payment that resolves to an already paid registration leaves its
\* paid_at, payment_payload, claim fields and payment_link_status as the
\* first payment set them.
C31_PaidRegistrationNotRematched ==
    \A r \in DOMAIN registrations :
        PaidAgain(r)
        => SameOn(session.registrations[r], registrations[r],
                  {"paid_at", "payment_payload", "payment_claimed_registration_id",
                   "payment_claimed_phone_e164", "payment_link_status"})

\* a registration paid by its id is matched again, by phone, by a payment
\* that does not name it: status, claim fields and paid_at are replaced
C31_Witness ==
    \E r \in DOMAIN registrations :
        /\ PaidAgain(r)
        /\ registrations[r].payment_link_status = "matched_by_registration_id"
        /\ session.registrations[r].payment_link_status = "matched_by_phone"
        /\ session.registrations[r].paid_at > registrations[r].paid_at
        /\ session.registrations[r].payment_claimed_registration_id = "None"

\* the registrations the request at hand holds changed
Mutated == {r \in DOMAIN registrations : session.registrations[r] # registrations[r]}

\* the columns a payment does not own
SignupSide ==
    {"registration_id", "event_id", "email", "phone_e164", "full_name",
     "signup_payload", "signup_received_at", "created_at"}

\* C32: a payment neither creates nor deletes a registration and mutates at
\* most one, the matched one, in its payment fields and updated_at only;
\* a signup removes no registration either.
C32_PaymentFrame ==
    /\ Handled("payment")
       => /\ DOMAIN session.registrations = DOMAIN registrations
          /\ Cardinality(Mutated) <= 1
          /\ \A r \in Mutated :
                /\ result.registration_id = r
                /\ SameOn(session.registrations[r], registrations[r], SignupSide)
                /\ DOMAIN session.registrations[r] = SignupSide \cup PaymentFields \cup {"updated_at"}
    /\ phase = "handled" => DOMAIN registrations \subseteq DOMAIN session.registrations

\* a payment matched by phone one of two registrations; its phone is
\* written differently from the one the signup gave
C32_Witness ==
    /\ Handled("payment")
    /\ Cardinality(DOMAIN registrations) = 2
    /\ Cardinality(Mutated) = 1
    /\ result.link_status = "matched_by_phone"
    /\ \E r \in Mutated : registrations[r].signup_payload.phone # parsed.phone_raw

\* C33: a registration committed with paid = TRUE is still in the store,
\* with paid = TRUE and a matched_by_* status, after every later step.
C33_PaidMonotone ==
    [][\A r \in DOMAIN registrations :
          registrations[r].paid
          => /\ r \in DOMAIN registrations'
             /\ registrations'[r].paid
             /\ registrations'[r].payment_link_status \in MatchedStatuses]_vars

\* a registration was paid and a payment that found nothing has been
\* committed after that
C33_Witness ==
    /\ phase = "idle"
    /\ committed
    /\ form_type = "payment"
    /\ result.link_status = "orphan_payment"
    /\ \E r \in DOMAIN registrations :
          /\ registrations[r].paid
          /\ registrations[r].paid_at < now

\* the status is one a registration can have, and unpaid, status unpaid
\* and no paid_at go together
WellFormedPayment(registration) ==
    /\ registration.payment_link_status
           \in {"unpaid", "matched_by_registration_id", "matched_by_phone"}
    /\ ~registration.paid <=> registration.payment_link_status = "unpaid"
    /\ ~registration.paid <=> registration.paid_at = NoTime

\* C34: every registration, committed or about to be, has status unpaid,
\* matched_by_registration_id or matched_by_phone, and paid = FALSE, status
\* unpaid and an absent paid_at hold together or not at all.
C34_StatusDomain ==
    /\ \A r \in DOMAIN registrations : WellFormedPayment(registrations[r])
    /\ \A r \in DOMAIN session.registrations :
          WellFormedPayment(session.registrations[r])

\* a payment by phone was committed; one registration is paid, another is not
C34_Witness ==
    /\ phase = "idle"
    /\ committed
    /\ form_type = "payment"
    /\ result.link_status = "matched_by_phone"
    /\ \E r \in DOMAIN registrations : registrations[r].paid
    /\ \E r \in DOMAIN registrations : ~registrations[r].paid

\* the request before this one was a payment committed as orphan
AfterOrphan ==
    /\ prev.committed
    /\ "link_status" \in DOMAIN prev.result
    /\ prev.result.link_status = "orphan_payment"

\* C35: a registration is created unpaid, with status unpaid and no payment
\* field set, also right after an orphan payment; and a paid registration
\* was paid by a request processed after the one that created it.
C35_OrphanNotReconciled ==
    /\ \A r \in DOMAIN session.registrations \ DOMAIN registrations :
          /\ ~session.registrations[r].paid
          /\ session.registrations[r].payment_link_status = "unpaid"
          /\ session.registrations[r].paid_at = NoTime
          /\ session.registrations[r].payment_payload = NoPayload
    /\ \A r \in DOMAIN registrations :
          registrations[r].paid => registrations[r].paid_at > registrations[r].created_at

\* an orphan payment was committed and logged with a phone; the next
\* request is a signup with that canonical phone, which creates R1 unpaid
C35_Witness ==
    /\ Handled("signup")
    /\ AfterOrphan
    /\ result.is_new
    /\ result.registration_id = "R1"
    /\ parsed.phone_e164 # "None"
    /\ Len(payments) = 1
    /\ payments[1].phone = parsed.phone_e164
    /\ ~session.registrations["R1"].paid

\* a payment with a canonical phone is logged while a committed
\* registration, hence a committed signup, has that canonical phone
PaymentAfterSignupOfPhone ==
    /\ Handled("payment")
    /\ parsed.phone_e164 # "None"
    /\ OneAuditRecord
    /\ \E r \in DOMAIN registrations : registrations[r].phone_e164 = parsed.phone_e164

\* C36: a payment processed after a signup with the same canonical phone is
\* recorded with recognized = TRUE.
C36_RecognizedAfterSignup ==
    PaymentAfterSignupOfPhone => session.new_payments[1].recognized

\* the signup gave its phone in national writing: its audit record holds
\* that writing, and the payment of the same number is not recognized
C36_Witness ==
    /\ PaymentAfterSignupOfPhone
    /\ Len(signups) = 1
    /\ signups[1].phone = "06 12345678"
    /\ parsed.phone_e164 = "+31612345678"
    /\ result.link_status = "matched_by_phone"
    /\ ~session.new_payments[1].recognized

----------------------------------------------------------------------------
(* Full-profile extraction *)

TextAttrs == {"first_name", "phone"}

\* no submitted key is a candidate of the attribute, and the single-field
\* lookup finds a value for it, which it can only find under a label
LabelOnly(attr_name) ==
    /\ first_key(FORM_FIELD_MAP[attr_name], 1, fields_by_key(call.fields)) = None
    /\ extract_field_value(call.fields, attr_name, FORM_FIELD_MAP) # None

\* C37: a submitted field that matches a candidate of a profile attribute only
\* by its label is still extracted: whenever the single-field lookup finds a
\* value for a text attribute under a label, extract_form_fields sets it.
C37_LabelMatchExtracted ==
    \A attr_name \in TextAttrs :
        (returned.raises = None /\ LabelOnly(attr_name))
            => returned.value[attr_name] # None

\* the profile was extracted from a submission whose first-name field is
\* known by its label only, and first_name was left absent
C37_Witness ==
    /\ returned.raises = None
    /\ LabelOnly("first_name")
    /\ returned.value.first_name = None
    /\ response.http = 201

\* the submission's field for the creative-expression score is a linear scale
\* whose value is a string that is not a number
ScoreNotInteger ==
    LET by_key == fields_by_key(call.fields)
    IN  /\ "question_2nw67g" \in DOMAIN by_key
        /\ by_key["question_2nw67g"].type = "LINEAR_SCALE"
        /\ by_key["question_2nw67g"].value = StrValue("a")

\* C38: parsing raises no error whatever the submitted values and type tags
\* are, a linear-scale value that is not an integer leaves the score absent,
\* and every parsed signup is answered 201 with its audit record appended.
C38_ParsingNeverAborts ==
    /\ returned # NoReturn => returned.raises = None
    /\ (returned # NoReturn /\ ScoreNotInteger)
           => returned.value.creative_expression_score = NullValue
    /\ response # NoResponse => response.http = 201 /\ Len(signups) = 1

\* a linear-scale score that is not an integer ended the request with an
\* error: no audit record, answer 500
C38_Witness ==
    /\ ScoreNotInteger
    /\ returned.raises = "ValueError"
    /\ response.http = 500
    /\ signups = <<>>

====
